---- MODULE Spec2Model ----
(***************************************************************************)
(* A model of the PostgreSQL protocol bridge of src/src/index.ts: the      *)
(* backend registry built by initializeDatabases, backend resolution       *)
(* (getDatabasePool / getDatabaseConfig), the CallTool handler with its    *)
(* scoped connections, and the health report of                            *)
(* performDatabaseHealthCheck.                                             *)
(*                                                                         *)
(* An action is one step of the event loop: the synchronous code that runs *)
(* between two awaits of a handler.  The awaits are pool.connect() and     *)
(* client.query(); the answer to each of them is one action.               *)
(***************************************************************************)
EXTENDS Integers, Sequences, FiniteSets, TLC

VARIABLES
  started,            \* "boot", "running" (app.listen reached) or "aborted" (process.exit(1))
  configData,         \* the command line and the parsed configuration file
  databaseConfigs,    \* Map<string, DatabaseConfig>: its keys, in insertion order
  databasePools,      \* Map<string, pg.Pool>: its keys, in insertion order
  defaultDatabaseId,  \* let defaultDatabaseId: string
  conns,              \* conns[b][k]: the call holding connection k of b's pool, 0 when idle
  txn,                \* txn[b][k]: the transaction state of connection k of backend b
  data,               \* data[b]: the committed state of the table of backend b
  calls,              \* calls[c]: the request in slot c and the position of its handler
  stats,              \* what the statistics views of the backends answer
  transports,         \* runServer: Map<string, SSEServerTransport>, session id -> connection
  sse,                \* the SSE connections opened so far: their session id, open or closed
  replies             \* the answers given to POST /messages/:sessionId, in order

httpVars == <<transports, sse, replies>>

vars == <<started, configData, databaseConfigs, databasePools, defaultDatabaseId,
          conns, txn, data, calls, stats, transports, sse, replies>>

(***************************************************************************)
(* Bounds of the model.                                                    *)
(***************************************************************************)
MaxCalls == 2          \* requests that may be in flight at once
PoolSize == 1          \* connections of one pg.Pool
MaxDatabases == 2      \* entries of "databases" in a configuration file
MaxSse == 3            \* SSE connections opened in one run
MaxPosts == 2          \* POST /messages requests in one run

Calls == 1..MaxCalls
Slots == 1..PoolSize

(***************************************************************************)
(* JavaScript values.  Undefined stands for the value undefined (an absent *)
(* argument or property); it is not one of the strings of the model.       *)
(***************************************************************************)
Undefined == "<undefined>"

\* ToBoolean of a string-or-undefined value: undefined and "" are falsy.
Truthy(v) == v # Undefined /\ v # ""

\* a || b
OrElse(a, b) == IF Truthy(a) THEN a ELSE b

\* Names every object literal inherits from Object.prototype (one of them).
ObjectPrototypeKeys == {"constructor"}

\* Keys a configuration file may give its databases.
ConfigIds == {"a", "b", ""}

RECURSIVE SeqToSet(_)
SeqToSet(s) == IF s = <<>> THEN {} ELSE {Head(s)} \cup SeqToSet(Tail(s))

\* Sequences over S of length at most n, without repetition (the own keys of
\* a JSON object, in Object.entries order).
RECURSIVE KeyLists(_, _)
KeyLists(S, n) ==
  IF n = 0 THEN {<<>>}
  ELSE LET shorter == KeyLists(S, n - 1)
       IN  shorter \cup {Append(s, x) : s \in shorter, x \in S}

OwnKeyLists(S, n) == {s \in KeyLists(S, n) : Cardinality(SeqToSet(s)) = Len(s)}

\* configData.databases[key]: an own entry (a DatabaseConfig object), else a
\* property inherited from Object.prototype, else undefined.  The result is
\* only tested for truthiness, so it is modelled by its truth value.
HasTruthyProperty(keys, key) ==
  LET name == IF key = Undefined THEN "undefined" ELSE key
  IN  name \in SeqToSet(keys) \/ name \in ObjectPrototypeKeys

(***************************************************************************)
(* Startup: initializeDatabases (called once, before runServer).           *)
(***************************************************************************)

\* What the process is started with.  usable: the argument count, the port
\* and the file are such that lines 66-88 reach the parsed configData (in
\* single mode: lines 116-127 reach the set-up of the database).
\* credentials: what the connection strings hold (user, password, host).
Credentials == {"p1", "p2"}

Configurations ==
  [mode : {"config"}, usable : BOOLEAN, hasDatabases : BOOLEAN,
   databases : OwnKeyLists(ConfigIds, MaxDatabases),
   defaultDatabase : ConfigIds \cup {"zz", Undefined} \cup ObjectPrototypeKeys,
   credentials : Credentials]
  \cup
  [mode : {"single"}, usable : BOOLEAN, hasDatabases : {FALSE},
   databases : {<<>>}, defaultDatabase : {Undefined}, credentials : Credentials]

\* The DatabaseConfig registered under id: an entry of the configuration
\* file (lines 102-103), or the one of single mode (lines 131-135).
DatabaseConfigOf(cfg, id) ==
  IF cfg.mode = "single"
  THEN [name |-> <<"Default Database">>,
        connectionString |-> <<"postgresql", cfg.credentials>>,
        description |-> <<"Single database configuration">>]
  ELSE [name |-> <<"name", id>>,
        connectionString |-> <<"postgresql", cfg.credentials, id>>,
        description |-> <<"description", id>>]

\* A configuration whose absent parts are written in one way only.
Normal(cfg) ==
  /\ cfg.hasDatabases \/ cfg.databases = <<>>
  /\ cfg.usable \/ (~cfg.hasDatabases /\ cfg.defaultDatabase = Undefined)

\* Lines 90-93: !configData.databases || Object.keys(...).length === 0
NoDatabasesConfigured(cfg) == ~cfg.hasDatabases \/ Len(cfg.databases) = 0

\* Lines 96-99: !configData.databases[defaultDatabaseId]
DefaultNotFound(cfg) == ~HasTruthyProperty(cfg.databases, cfg.defaultDatabase)


\* A backend holds at most one table, named TableName.  At startup it has
\* the columns a INTEGER, b TEXT and no rows.
TableName == "t"
DefaultColumns == << [name |-> "a", type |-> "integer"], [name |-> "b", type |-> "text"] >>

EmptyTable == [exists |-> TRUE, columns |-> DefaultColumns, rows |-> <<>>]
NoTable == [exists |-> FALSE, columns |-> <<>>, rows |-> <<>>]

\* A pooled connection outside any transaction.
IdleTxn == [mode |-> "none", work |-> NoTable]

\* process.exit(1): nothing is registered and the server never listens.
Exit ==
  /\ started' = "aborted"
  /\ UNCHANGED <<databaseConfigs, databasePools, conns, txn, data>>

\* The loop of lines 102-107 (config mode) or lines 137-139 (single mode):
\* the same key goes into both maps, in the order of Object.entries.
Register(keys) ==
  /\ databaseConfigs' = keys
  /\ databasePools' = keys
  /\ conns' = [b \in SeqToSet(keys) |-> [k \in Slots |-> 0]]
  /\ txn' = [b \in SeqToSet(keys) |-> [k \in Slots |-> IdleTxn]]
  /\ data' = [b \in SeqToSet(keys) |-> EmptyTable]
  /\ started' = "running"

initializeDatabases ==
  /\ started = "boot"
  /\ IF configData.mode = "config"
     THEN IF ~configData.usable \/ NoDatabasesConfigured(configData)
          THEN Exit /\ UNCHANGED defaultDatabaseId
          ELSE /\ defaultDatabaseId' = configData.defaultDatabase
               /\ IF DefaultNotFound(configData)
                  THEN Exit
                  ELSE Register(configData.databases)
     ELSE IF ~configData.usable
          THEN Exit /\ UNCHANGED defaultDatabaseId
          ELSE /\ defaultDatabaseId' = "default"
               /\ Register(<<"default">>)
  /\ UNCHANGED <<configData, calls, stats, httpVars>>

(***************************************************************************)
(* Backend resolution.                                                     *)
(***************************************************************************)

\* A resolution that hands out the default backend's pool for every id.
getDatabasePoolOfDefault(databaseId) ==
  [found |-> defaultDatabaseId \in SeqToSet(databasePools), dbId |-> defaultDatabaseId]

\* getDatabasePool(databaseId): [found, dbId]; found = FALSE is the throw of
\* line 152, otherwise dbId names the pool that is returned.
getDatabasePool(databaseId) ==
  LET dbId == OrElse(databaseId, defaultDatabaseId)
  IN  [found |-> dbId \in SeqToSet(databasePools), dbId |-> dbId]

\* getDatabaseConfig(databaseId): as above, on the descriptor map.
getDatabaseConfig(databaseId) ==
  LET dbId == OrElse(databaseId, defaultDatabaseId)
  IN  [found |-> dbId \in SeqToSet(databaseConfigs), dbId |-> dbId]

\* A list whose entries are the whole DatabaseConfig objects.
listDatabasesOfWithConnectionString(cfg, keys) ==
  [i \in 1..Len(keys) |->
     [id |-> keys[i], name |-> DatabaseConfigOf(cfg, keys[i]).name,
      description |-> DatabaseConfigOf(cfg, keys[i]).description,
      connectionString |-> DatabaseConfigOf(cfg, keys[i]).connectionString]]

\* Lines 169-173 for the configuration cfg and the keys of databaseConfigs.
listDatabasesOf(cfg, keys) ==
  [i \in 1..Len(keys) |->
     [id |-> keys[i], name |-> DatabaseConfigOf(cfg, keys[i]).name,
      description |-> DatabaseConfigOf(cfg, keys[i]).description]]

\* listDatabases(): one entry per key of databaseConfigs, in Map order.
listDatabases == listDatabasesOf(configData, databaseConfigs)

\* addDatabaseParameter: what the tool list says of the database parameter.
addDatabaseParameter == <<"database-parameter", databaseConfigs, defaultDatabaseId>>

(***************************************************************************)
(* The backend behind client.query(text): PostgreSQL's simple query        *)
(* protocol.  The text is a list of statements run in order; the first     *)
(* error ends the message.  A backend holds one table.                     *)
(***************************************************************************)
WriteWords == {"CREATE", "INSERT", "UPDATE", "DELETE", "DROP"}

\* Object.keys / Object.values of a Record<string, string>, which the model
\* writes as the sequence of its entries [k, v] in Object.entries order.
MapKeys(m) == {m[j].k : j \in 1..Len(m)}
MapGet(m, key) == m[CHOOSE j \in 1..Len(m) : m[j].k = key].v

\* The value a column of the given type stores for a bound text parameter:
\* an INTEGER column parses it ("01" is the integer 1, "x" is rejected), a
\* TEXT column keeps it.
Null == <<"null", "">>
Typed(type, v) ==
  CASE type = "integer" -> (CASE v \in {"1", "01"} -> <<"int", "1">>
                              [] v \in {"2", "02"} -> <<"int", "2">>
                              [] OTHER -> <<"error", v>>)
    [] type = "text" -> <<"text", v>>
    [] OTHER -> <<"error", v>>

ColumnNames(t) == {t.columns[i].name : i \in 1..Len(t.columns)}
ColumnIndex(t, name) == CHOOSE i \in 1..Len(t.columns) : t.columns[i].name = name
ColumnType(t, name) == t.columns[ColumnIndex(t, name)].type

\* Every key of m is a column of t and its value is accepted by the column.
Accepted(t, m) ==
  /\ m # <<>>
  /\ MapKeys(m) \subseteq ColumnNames(t)
  /\ \A j \in 1..Len(m) : Typed(ColumnType(t, m[j].k), m[j].v)[1] # "error"

\* The row INSERT INTO t (keys) VALUES (params) stores.
RowOf(t, values) ==
  [i \in 1..Len(t.columns) |->
     IF t.columns[i].name \in MapKeys(values)
     THEN Typed(t.columns[i].type, MapGet(values, t.columns[i].name))
     ELSE Null]

\* WHERE k1 = $1 AND k2 = $2 ... on one row.
Matches(t, row, conditions) ==
  \A j \in 1..Len(conditions) :
    row[ColumnIndex(t, conditions[j].k)] = Typed(ColumnType(t, conditions[j].k), conditions[j].v)

\* SET k1 = $1, ... on one row.
Assigned(t, row, values) ==
  [i \in 1..Len(t.columns) |->
     IF t.columns[i].name \in MapKeys(values)
     THEN Typed(t.columns[i].type, MapGet(values, t.columns[i].name))
     ELSE row[i]]

ColumnsAccepted(columns) ==
  /\ \A i \in 1..Len(columns) : columns[i].type \in {"integer", "text"}
  /\ \A i, j \in 1..Len(columns) : columns[i].name = columns[j].name => i = j

Failed(t) == [ok |-> FALSE, table |-> t, rows |-> <<>>]

\* DROP TABLE without IF EXISTS: an absent table is an error.
DropTableStrict(t, named) ==
  IF t.exists /\ named THEN [ok |-> TRUE, rows |-> <<>>, table |-> NoTable] ELSE Failed(t)

\* DROP TABLE IF EXISTS: an absent table is a notice, not an error.
DropTable(t, named) ==
  [ok |-> TRUE, rows |-> <<>>, table |-> IF named THEN NoTable ELSE t]

\* One statement on table t, for the request r it was built from:
\* [ok, table, rows], rows being result.rows.  A statement that names
\* another table than TableName finds no such table.
ApplyWord(w, t, r) ==
  LET named == r.tableName = TableName
      there == t.exists /\ named
  IN
  CASE w = "CREATE" -> IF t.exists \/ ~named \/ ~ColumnsAccepted(r.columns) THEN Failed(t)
                       ELSE [ok |-> TRUE, rows |-> <<>>,
                             table |-> [exists |-> TRUE, columns |-> r.columns, rows |-> <<>>]]
    [] w = "DROP"   -> DropTable(t, named)
    [] w = "INSERT" -> IF there /\ Accepted(t, r.values)
                       THEN [ok |-> TRUE, rows |-> <<RowOf(t, r.values)>>,
                             table |-> [t EXCEPT !.rows = Append(@, RowOf(t, r.values))]]
                       ELSE Failed(t)
    [] w = "DELETE" -> IF there /\ Accepted(t, r.conditions)
                       THEN [ok |-> TRUE,
                             rows |-> SelectSeq(t.rows, LAMBDA row : Matches(t, row, r.conditions)),
                             table |-> [t EXCEPT !.rows =
                                SelectSeq(@, LAMBDA row : ~Matches(t, row, r.conditions))]]
                       ELSE Failed(t)
    [] w = "UPDATE" -> IF there /\ Accepted(t, r.values) /\ Accepted(t, r.conditions)
                       THEN LET new == [i \in 1..Len(t.rows) |->
                                          IF Matches(t, t.rows[i], r.conditions)
                                          THEN Assigned(t, t.rows[i], r.values)
                                          ELSE t.rows[i]]
                                hit == SelectSeq(t.rows, LAMBDA row : Matches(t, row, r.conditions))
                            IN  [ok |-> TRUE, table |-> [t EXCEPT !.rows = new],
                                 rows |-> [i \in 1..Len(hit) |-> Assigned(t, hit[i], r.values)]]
                       ELSE Failed(t)
    [] w = "SELECT" -> IF t.exists THEN [ok |-> TRUE, table |-> t, rows |-> t.rows]
                       ELSE Failed(t)
    \* information_schema.tables, table_schema = 'public'
    [] w = "TABLES" -> [ok |-> TRUE, table |-> t,
                        rows |-> IF t.exists THEN << <<TableName>> >> ELSE <<>>]
    \* information_schema.columns, table_name = $1
    [] w = "COLUMNS" -> [ok |-> TRUE, table |-> t,
                         rows |-> IF there
                                  THEN [i \in 1..Len(t.columns) |->
                                          <<t.columns[i].name, t.columns[i].type>>]
                                  ELSE <<>>]
    [] OTHER -> [ok |-> TRUE, table |-> t, rows |-> <<>>]

\* One statement of a message.  st = [ok, mode, work, data, rows, req]: mode
\* is the connection's transaction state ("none", "implicit" inside a message,
\* "ro", "rw", "aborted"), work the table as the open transaction sees it,
\* data the committed table, rows the rows of the last statement.
RunWord(w, st) ==
  IF ~st.ok THEN st
  ELSE IF st.mode = "aborted"
  THEN IF w \in {"COMMIT", "ROLLBACK"}
       THEN [st EXCEPT !.mode = "none", !.work = NoTable]
       ELSE [st EXCEPT !.ok = FALSE]
  ELSE IF w = "BEGIN_RO"
  THEN IF st.mode = "none" THEN [st EXCEPT !.mode = "ro", !.work = st.data] ELSE st
  ELSE IF w = "BEGIN"
  THEN IF st.mode = "none" THEN [st EXCEPT !.mode = "rw", !.work = st.data]
       ELSE IF st.mode = "implicit" THEN [st EXCEPT !.mode = "rw"] ELSE st
  ELSE IF w = "COMMIT"
  THEN IF st.mode \in {"rw", "implicit"}
       THEN [st EXCEPT !.mode = "none", !.data = st.work, !.work = NoTable]
       ELSE [st EXCEPT !.mode = "none", !.work = NoTable]
  ELSE IF w = "ROLLBACK"
  THEN [st EXCEPT !.mode = "none", !.work = NoTable]
  ELSE IF w \in WriteWords /\ st.mode = "ro"
  THEN [st EXCEPT !.ok = FALSE, !.mode = "aborted"]
  ELSE LET open == IF st.mode = "none"
                   THEN [st EXCEPT !.mode = "implicit", !.work = st.data] ELSE st
           r == ApplyWord(w, open.work, st.req)
       IN  IF r.ok THEN [open EXCEPT !.work = r.table, !.rows = r.rows]
           ELSE IF open.mode = "implicit"
                THEN [open EXCEPT !.ok = FALSE, !.mode = "none", !.work = NoTable]
                ELSE [open EXCEPT !.ok = FALSE, !.mode = "aborted"]

RECURSIVE RunWords(_, _)
RunWords(text, st) ==
  IF text = <<>> THEN st ELSE RunWords(Tail(text), RunWord(Head(text), st))

\* result.rows of a message of several statements: the result is an array
\* of results, which has no rows property.
UndefinedRows == << <<"undefined">> >>

\* A message whose implicit transaction is rolled back at its end.
RunTextWithoutCommit(text, r, conn, table) ==
  LET st == RunWords(text, [ok |-> TRUE, mode |-> conn.mode, work |-> conn.work,
                            data |-> table, rows |-> <<>>, req |-> r])
  IN  IF st.mode = "implicit" THEN [st EXCEPT !.mode = "none", !.work = NoTable] ELSE st

\* A whole message, built from request r: at its end an implicit
\* transaction commits.
RunText(text, r, conn, table) ==
  LET st == RunWords(text, [ok |-> TRUE, mode |-> conn.mode, work |-> conn.work,
                            data |-> table, rows |-> <<>>, req |-> r])
      out == [st EXCEPT !.rows = IF ~st.ok THEN <<>>
                                 ELSE IF Len(text) > 1 THEN UndefinedRows ELSE @]
  IN  IF out.mode = "implicit"
      THEN [out EXCEPT !.mode = "none", !.data = out.work, !.work = NoTable]
      ELSE out

(***************************************************************************)
(* The statistics the probes read, and how the probes classify them.       *)
(* Rates and thresholds are counted in thousandths.                        *)
(***************************************************************************)

\* The rate column as the backend sends it: a numeric comes as text, SQL
\* NULL (nullif(..., 0): no block was hit or read) as null.
RateTexts == {"null", "0", "0.5", "0.949", "0.94999999999999999999", "0.95",
              "0.9500", "0.99", "0.999", "1"}

NoRate == 0 - 1

\* parseFloat(result.rows[0].rate), in thousandths (NoRate for null, which
\* the probes test before they parse).  The nearest double to
\* 0.94999999999999999999 is the double of the literal 0.95.
parseFloat(text) ==
  CASE text = "0" -> 0
    [] text = "0.5" -> 500
    [] text = "0.949" -> 949
    [] text \in {"0.94999999999999999999", "0.95", "0.9500"} -> 950
    [] text = "0.99" -> 990
    [] text = "0.999" -> 999
    [] text = "1" -> 1000
    [] OTHER -> NoRate

\* age(datfrozenxid), an int4.
Ages == {0, 999999999, 1000000000, 1000000001, 1499999999, 1500000000, 1500000001,
         2147483647}

DefaultStatistics == [indexRate |-> "0.99", tableRate |-> "0.99", age |-> 0]

\* The default of the threshold parameter (lines 180, 207, 1070) and the
\* threshold of the buffer section of a report (lines 527-528).
DefaultThreshold == 950

\* Lines 186-196 and 213-223: the message for a rate text.
RateLabel(text, threshold) ==
  IF text = "null" THEN "no-data"
  ELSE IF parseFloat(text) >= threshold THEN "Good"
  ELSE "Poor"

\* A comparison that puts the two boundary ages into the higher tier.
SeverityInclusive(txidAge) ==
  IF txidAge >= 1500000000 THEN "critical"
  ELSE IF txidAge >= 1000000000 THEN "warning"
  ELSE "healthy"

\* Lines 349-355.
Severity(txidAge) ==
  IF txidAge > 1500000000 THEN "critical"
  ELSE IF txidAge > 1000000000 THEN "warning"
  ELSE "healthy"

(***************************************************************************)
(* Requests and the shape of their handlers.                               *)
(***************************************************************************)
StatementTools == {"query", "create_table", "insert_entry", "update_entry",
                   "delete_entry", "delete_table"}
ToolNames == StatementTools \cup {"list_databases", "buffer_health_check",
                                  "database_health_check"}

\* The sql texts a client sends to the query tool.
SqlTexts == {<<"SELECT">>, <<"INSERT">>, <<"SELECT", "INSERT">>,
             <<"COMMIT", "INSERT">>, <<"COMMIT", "BEGIN", "INSERT">>}

\* (request.params.arguments?.threshold as number) || 0.95
thresholdOrDefault(r) == IF r.thresholdGiven /\ r.threshold # 0 THEN r.threshold ELSE DefaultThreshold

\* Line 1070: (request.params.arguments?.threshold as number) ?? 0.95
thresholdOf(r) == IF r.thresholdGiven THEN r.threshold ELSE DefaultThreshold

\* The fixed catalog of line 501.
Catalog == <<"index", "connection", "vacuum", "sequence", "replication",
             "buffer", "constraint">>

\* String.prototype.toLowerCase / toUpperCase on the strings of the model.
toLowerCase(x) ==
  CASE x = "INDEX" -> "index"
    [] x = "ALL" -> "all"
    [] OTHER -> x

toUpperCase(x) ==
  CASE x = "index" -> "INDEX"
    [] x = "connection" -> "CONNECTION"
    [] x = "vacuum" -> "VACUUM"
    [] x = "sequence" -> "SEQUENCE"
    [] x = "replication" -> "REPLICATION"
    [] x = "buffer" -> "BUFFER"
    [] x = "constraint" -> "CONSTRAINT"
    [] x = "all" -> "ALL"
    [] x = "bogus" -> "BOGUS"
    [] OTHER -> x

\* A resource URI "postgres:" + rest.  authority: the rest starts with "//";
\* segs: what follows, split at "/".
NoUri == [authority |-> TRUE, segs |-> <<>>]

NoRequest == [name |-> "", database |-> Undefined, sql |-> <<>>,
              typesGiven |-> FALSE, health_types |-> <<>>,
              tableName |-> TableName, columns |-> DefaultColumns,
              values |-> << [k |-> "a", v |-> "1"] >>,
              conditions |-> << [k |-> "a", v |-> "1"] >>,
              uri |-> NoUri,
              thresholdGiven |-> FALSE, threshold |-> 0]

(***************************************************************************)
(* The statement texts.  A text is the sequence of its tokens; the strings *)
(* a template literal splices in are tokens of their own.                  *)
(***************************************************************************)

\* `$${index + 1}`
Dollar(k) == <<"$1", "$2", "$3", "$4", "$5", "$6">>[k]

\* Array.prototype.join on an array of token lists.
RECURSIVE Join(_, _)
Join(parts, sep) ==
  IF parts = <<>> THEN <<>>
  ELSE IF Len(parts) = 1 THEN parts[1]
  ELSE parts[1] \o <<sep>> \o Join(Tail(parts), sep)

\* Object.values(m)
ObjectValues(m) == [i \in 1..Len(m) |-> m[i].v]

\* Lines 903-905.
columnDefinitions(columns) ==
  Join([i \in 1..Len(columns) |-> <<columns[i].name, columns[i].type>>], ",")

\* Line 910.
createTableQuery(tableName, columns) ==
  <<"CREATE TABLE", tableName, "(">> \o columnDefinitions(columns) \o <<")">>

\* Placeholders that are the values themselves.
placeholdersInlined(values) == Join([i \in 1..Len(values) |-> <<values[i].v>>], ",")

\* Lines 939-941.
placeholders(values) == Join([i \in 1..Len(values) |-> <<Dollar(i)>>], ",")

\* Lines 938 and 947.
insertQuery(tableName, values) ==
  <<"INSERT INTO", tableName, "(">>
  \o Join([i \in 1..Len(values) |-> <<values[i].k>>], ",")
  \o <<")", "VALUES", "(">> \o placeholders(values) \o <<")", "RETURNING *">>

\* Line 979.
deleteTableQuery(tableName) == <<"DROP TABLE IF EXISTS", tableName>>

\* Lines 1005-1007.
setClauses(values) ==
  Join([i \in 1..Len(values) |-> <<values[i].k, "=", Dollar(i)>>], ",")

\* WHERE placeholders numbered from $1.
updateWhereClausesFromOne(values, conditions) ==
  Join([i \in 1..Len(conditions) |-> <<conditions[i].k, "=", Dollar(i)>>], "AND")

\* Lines 1008-1010.
updateWhereClauses(values, conditions) ==
  Join([i \in 1..Len(conditions) |-> <<conditions[i].k, "=", Dollar(Len(values) + i)>>], "AND")

\* Line 1016.
updateQuery(tableName, values, conditions) ==
  <<"UPDATE", tableName, "SET">> \o setClauses(values) \o <<"WHERE">>
  \o updateWhereClauses(values, conditions) \o <<"RETURNING *">>

\* Lines 1042-1044.
deleteWhereClauses(conditions) ==
  Join([i \in 1..Len(conditions) |-> <<conditions[i].k, "=", Dollar(i)>>], "AND")

\* Line 1050.
deleteQuery(tableName, conditions) ==
  <<"DELETE FROM", tableName, "WHERE">> \o deleteWhereClauses(conditions) \o <<"RETURNING *">>

(***************************************************************************)
(* Resource URIs.                                                          *)
(***************************************************************************)
SCHEMA_PATH == "schema"

\* Line 574 and line 593.
DatabasesUri == [authority |-> TRUE, segs |-> <<"databases">>]
TableUri(dbId, table_name) == [authority |-> TRUE, segs |-> <<dbId, table_name, SCHEMA_PATH>>]

\* new URL(uri).pathname, as the list of what stands between its slashes
\* (<<>> for the empty pathname).  The scheme postgres: is not a special
\* scheme: after "//" the first component is the host, not part of the path.
pathname(uri) == IF uri.authority /\ uri.segs # <<>> THEN Tail(uri.segs) ELSE uri.segs

\* resourceUrl.pathname === "/databases"
IsDatabasesPath(uri) == pathname(uri) = <<"databases">>

\* resourceUrl.pathname.split("/").filter(p => p)
pathComponents(uri) == SelectSeq(pathname(uri), LAMBDA p : p # "")

\* request.params.arguments?.health_types ?? ["all"]
healthTypesOf(r) == IF r.typesGiven THEN r.health_types ELSE <<"all">>

\* A normalisation that does not expand the sentinel.
normalizedTypesUnexpanded(healthTypes) == healthTypes

\* A normalisation that looks for the sentinel in the first place only.
normalizedTypesByFirst(healthTypes) ==
  IF healthTypes # <<>> /\ healthTypes[1] = "all" THEN Catalog ELSE healthTypes

\* Lines 500-502.
normalizedTypes(healthTypes) ==
  IF "all" \in SeqToSet(healthTypes) THEN Catalog ELSE healthTypes

ProbeKinds == {"index", "connection", "vacuum", "sequence", "replication",
               "constraint"}

\* The switch of lines 510-536: the functions a section calls, each of which
\* acquires and releases one connection; none for the default branch.
ProbeSegments(healthType) ==
  LET t == toLowerCase(healthType)
  IN  IF t \in ProbeKinds THEN <<t>>
      ELSE IF t = "buffer" THEN <<"indexRate", "tableRate">>
      ELSE <<>>

\* The sections a handler runs in order, each a list of segments.
Sections(r) ==
  IF r.name = "database_health_check"
  THEN LET nt == normalizedTypes(healthTypesOf(r))
       IN  [i \in 1..Len(nt) |-> [name |-> nt[i], segs |-> ProbeSegments(nt[i])]]
  ELSE IF r.name = "buffer_health_check"
  THEN << [name |-> r.name, segs |-> <<"indexRate", "tableRate">>] >>
  \* the loop of lines 581-606: one iteration per entry of databaseConfigs
  ELSE IF r.name = "resources/list"
  THEN [i \in 1..Len(databaseConfigs) |-> [name |-> databaseConfigs[i], segs |-> <<"listTables">>]]
  ELSE << [name |-> r.name, segs |-> <<r.name>>] >>

\* A try block that sends its last statement a second time.
TryStatementsRepeated(kind, r) ==
  CASE kind = "query" -> << <<"BEGIN_RO">>, r.sql, r.sql >>
    [] kind = "create_table" -> << <<"CREATE">>, <<"CREATE">> >>
    [] kind = "insert_entry" -> << <<"INSERT">>, <<"INSERT">> >>
    [] kind = "update_entry" -> << <<"UPDATE">>, <<"UPDATE">> >>
    [] kind = "delete_entry" -> << <<"DELETE">>, <<"DELETE">> >>
    [] kind = "delete_table" -> << <<"DROP">>, <<"DROP">> >>
    [] OTHER -> << <<"STAT">> >>

\* The statements of a segment's try block, in order.
TryStatements(kind, r) ==
  CASE kind = "query" -> << <<"BEGIN_RO">>, r.sql >>
    [] kind = "listTables" -> << <<"TABLES">> >>
    [] kind = "resources/read" -> << <<"COLUMNS">> >>
    [] kind = "create_table" -> << <<"CREATE">> >>
    [] kind = "insert_entry" -> << <<"INSERT">> >>
    [] kind = "update_entry" -> << <<"UPDATE">> >>
    [] kind = "delete_entry" -> << <<"DELETE">> >>
    [] kind = "delete_table" -> << <<"DROP">> >>
    [] kind \in {"index", "connection", "vacuum"} -> << <<"STAT">>, <<"STAT">> >>
    [] OTHER -> << <<"STAT">> >>

\* A finally block that releases without ROLLBACK.
FinallyStatementsWithoutRollback(kind) == <<>>

\* The statements a segment's finally block awaits before client.release().
FinallyStatements(kind) ==
  IF kind = "query" THEN << <<"ROLLBACK">> >> ELSE <<>>

\* Probes without a catch of their own.
CatchesOwnErrorsNowhere(kind) == FALSE

\* The probes whose own catch turns an error into a finding (lines 277-281);
\* every other segment rethrows.
CatchesOwnErrors(kind) == kind \in ProbeKinds

\* What a probe pushes to results once statement k of its try block has
\* been answered (one token stands for the lines of one finding).
Findings(kind, k) ==
  CASE kind \in {"index", "vacuum"} -> << <<"finding", kind, IF k = 1 THEN "first" ELSE "second">> >>
    [] kind = "connection" -> IF k = 2 THEN << <<"finding", kind, "first">> >> ELSE <<>>
    [] kind \in {"sequence", "replication", "constraint"} -> << <<"finding", kind, "first">> >>
    [] kind \in {"indexRate", "tableRate"} -> << <<"rate", kind>> >>
    [] OTHER -> <<>>

(***************************************************************************)
(* The position of one handler.                                            *)
(***************************************************************************)
NoError == <<>>
NoResponse == [how |-> "none", isError |-> Undefined, content |-> <<>>]

IdleCall ==
  [req |-> NoRequest,
   pc |-> "idle",          \* "idle", "connect" (awaiting pool.connect()),
                           \* "query" (awaiting client.query()), "done"
   sec |-> 0, seg |-> 0,   \* the section and the segment it is in
   phase |-> "none",       \* "try" or "finally"
   stmt |-> 0,             \* the statement awaited, in TryStatements or FinallyStatements
   db |-> Undefined,       \* the key of the pool of this segment
   client |-> 0,           \* the connection held, 0 for none
   log |-> <<>>,           \* what happened on the connections it acquired
   err |-> NoError,        \* the error a try block has thrown, pending in finally
   resp |-> NoResponse,    \* how the handler ended
   rows |-> <<>>,          \* result.rows of the last statement answered in a try block
   results |-> <<>>,       \* the findings of the current section
   details |-> <<>>,       \* the wording of the findings that classify a statistic
   allResults |-> <<>>]    \* the lines of the health report

IsHealthCheck(cr) == cr.req.name = "database_health_check"
IsListing(cr) == cr.req.name = "resources/list"
IsRead(cr) == cr.req.name = "resources/read"

\* The handler ends by throwing: every catch of the CallTool handler is
\* "throw error" (lines 888-889, 924-925, ..., 1107-1108, 1112).
Throw(cr, message) ==
  [cr EXCEPT !.pc = "done", !.err = NoError,
             !.resp = [how |-> "throw", isError |-> Undefined, content |-> <<message>>]]

\* The handler ends by returning { content, isError: false }.
Return(cr, content) ==
  [cr EXCEPT !.pc = "done",
             !.resp = [how |-> "return", isError |-> "false", content |-> content]]

\* A resource handler ends by returning { resources } or { contents }: the
\* response has no error flag.
ReturnResource(cr, content) ==
  [cr EXCEPT !.pc = "done",
             !.resp = [how |-> "return", isError |-> Undefined, content |-> content]]

\* The return statement of each tool and resource handler.  The text of a
\* statement tool's response is built from cr.rows.
Finish(cr) ==
  IF IsHealthCheck(cr) THEN Return(cr, cr.allResults)
  ELSE IF IsListing(cr) THEN ReturnResource(cr, cr.allResults)
  ELSE IF IsRead(cr) THEN ReturnResource(cr, << <<"columns">> >>)
  ELSE IF cr.req.name = "buffer_health_check"
  THEN Return(cr, << <<"buffer-analysis">> >> \o cr.details)
  ELSE Return(cr, << <<"result", cr.req.name>> >>)

\* The database id the function of the current segment hands to
\* getDatabasePool: the tool's database argument, the dbId of the iteration
\* (line 583), or the first path component (lines 635 and 645).
SegmentDatabase(cr) ==
  IF IsListing(cr) THEN Sections(cr.req)[cr.sec].name
  ELSE IF IsRead(cr) THEN pathComponents(cr.req.uri)[1]
  ELSE cr.req.database

RECURSIVE EnterSection(_, _), EnterSegment(_, _), Raise(_, _)

\* The loop of lines 504-545 reaches element i (for the other tools: the one
\* section is entered, or left).
EnterSection(cr, i) ==
  LET secs == Sections(cr.req)
  IN  IF i > Len(secs) THEN Finish(cr)
      ELSE LET at == [cr EXCEPT !.sec = i, !.seg = 0, !.results = <<>>]
               headed == IF IsHealthCheck(cr)
                         THEN [at EXCEPT !.allResults =
                                 Append(@, <<"header", toUpperCase(secs[i].name)>>)]
                         ELSE at
           IN  IF secs[i].segs = <<>>
               THEN EnterSection(
                      [headed EXCEPT !.allResults =
                         @ \o << <<"unknown-type", secs[i].name>>, <<"blank">> >>],
                      i + 1)
               ELSE EnterSegment(headed, 1)

\* A function that takes a connection is called: getDatabasePool, then
\* await pool.connect().
EnterSegment(cr, j) ==
  LET pool == getDatabasePool(SegmentDatabase(cr))
  IN  IF ~pool.found THEN Raise(cr, <<"not-found", pool.dbId>>)
      ELSE [cr EXCEPT !.seg = j, !.pc = "connect", !.db = pool.dbId,
                      !.phase = "try", !.stmt = 0, !.err = NoError]

\* Every error goes to the caller of the handler.
RaiseToCaller(cr, message) == Throw(cr, message)

\* An error leaves the function of the current segment.  Inside
\* performDatabaseHealthCheck the catch of lines 540-542 makes it one line of
\* the section; in the resource listing the catch of lines 603-605 logs it
\* and the loop goes on; in every other handler it ends the call.
Raise(cr, message) ==
  IF IsHealthCheck(cr)
  THEN EnterSection(
         [cr EXCEPT !.allResults =
            @ \o << <<"error-running", Sections(cr.req)[cr.sec].name>>, <<"blank">> >>],
         cr.sec + 1)
  ELSE IF IsListing(cr) THEN EnterSection(cr, cr.sec + 1)
  ELSE Throw(cr, message)

\* The function of the current segment returned.
SegmentDone(cr) ==
  LET sec == Sections(cr.req)[cr.sec]
  IN  IF cr.seg < Len(sec.segs) THEN EnterSegment(cr, cr.seg + 1)
      ELSE IF IsHealthCheck(cr)
      THEN EnterSection([cr EXCEPT !.allResults = @ \o cr.results \o << <<"blank">> >>],
                        cr.sec + 1)
      \* lines 591-598: one resource per row
      ELSE IF IsListing(cr)
      THEN EnterSection([cr EXCEPT !.allResults =
                           @ \o [i \in 1..Len(cr.rows) |-> TableUri(sec.name, cr.rows[i][1])]],
                        cr.sec + 1)
      ELSE EnterSection(cr, cr.sec + 1)

Kind(cr) == Sections(cr.req)[cr.sec].segs[cr.seg]

\* The text awaited by a handler at pc = "query".
Awaited(cr) ==
  IF cr.phase = "try" THEN TryStatements(Kind(cr), cr.req)[cr.stmt]
  ELSE FinallyStatements(Kind(cr))[cr.stmt]

\* The first argument of the awaited client.query().
StatementText(cr) ==
  LET kind == Kind(cr)
      r == cr.req
  IN  IF cr.phase = "finally" THEN <<"ROLLBACK">>
      ELSE CASE kind = "query" -> IF cr.stmt = 1 THEN <<"BEGIN TRANSACTION READ ONLY">> ELSE r.sql
             [] kind = "create_table" -> createTableQuery(r.tableName, r.columns)
             [] kind = "insert_entry" -> insertQuery(r.tableName, r.values)
             [] kind = "update_entry" -> updateQuery(r.tableName, r.values, r.conditions)
             [] kind = "delete_entry" -> deleteQuery(r.tableName, r.conditions)
             [] kind = "delete_table" -> deleteTableQuery(r.tableName)
             [] kind = "listTables" ->
                  <<"SELECT table_name FROM information_schema.tables WHERE table_schema = 'public'">>
             [] kind = "resources/read" ->
                  <<"SELECT column_name, data_type FROM information_schema.columns WHERE table_name =",
                    Dollar(1)>>
             [] OTHER -> <<"STAT", kind>>

\* The second argument of the awaited client.query(): the bound parameters.
StatementParams(cr) ==
  LET kind == Kind(cr)
      r == cr.req
  IN  IF cr.phase = "finally" THEN <<>>
      ELSE CASE kind = "insert_entry" -> ObjectValues(r.values)
             [] kind = "update_entry" -> ObjectValues(r.values) \o ObjectValues(r.conditions)
             [] kind = "delete_entry" -> ObjectValues(r.conditions)
             [] kind = "resources/read" -> <<pathComponents(r.uri)[2]>>
             [] OTHER -> <<>>

\* The request as the backend sees it: the table a resource read asks for is
\* its bound parameter.
Bound(cr) ==
  IF IsRead(cr) THEN [cr.req EXCEPT !.tableName = StatementParams(cr)[1]] ELSE cr.req

\* What the function of the current segment makes of the statistic its
\* statement has just returned.
Details(cr) ==
  LET kind == Kind(cr)
      threshold == IF IsHealthCheck(cr) THEN DefaultThreshold ELSE thresholdOf(cr.req)
  IN  CASE kind = "indexRate" -> << <<"index-rate", RateLabel(stats.indexRate, threshold)>> >>
        [] kind = "tableRate" -> << <<"table-rate", RateLabel(stats.tableRate, threshold)>> >>
        [] kind = "vacuum" /\ cr.stmt = 1 -> << <<"txid-age", Severity(stats.age)>> >>
        [] OTHER -> <<>>

\* One entry of a call's log: what was asked of the pool or sent on the
\* connection (with its text and parameters), whether it succeeded, and the
\* segment and section it belongs to.
Event(cr, op, ok) ==
  [op |-> op, ok |-> ok, kind |-> Kind(cr), sec |-> cr.sec, db |-> cr.db,
   text |-> IF op \in {"connect", "release"} THEN <<>> ELSE StatementText(cr),
   params |-> IF op \in {"connect", "release"} THEN <<>> ELSE StatementParams(cr)]

\* The name under which an awaited statement is logged: "sql" is the text
\* the client supplied to the query tool.
StatementName(cr) ==
  IF Kind(cr) = "query" /\ cr.phase = "try"
  THEN IF cr.stmt = 1 THEN "BEGIN" ELSE "sql"
  ELSE Awaited(cr)[1]

\* A function that returns, or rethrows, with its connection still held.
ReleasedNever(cr, e) ==
  IF e # NoError THEN Raise([cr EXCEPT !.err = NoError], e)
  ELSE SegmentDone([cr EXCEPT !.err = NoError])

\* client.release(), then the pending error is rethrown or the function returns.
Released(cr, e) ==
  LET free == [cr EXCEPT !.client = 0, !.err = NoError,
                         !.log = Append(@, Event(cr, "release", TRUE))]
  IN  IF e # NoError THEN Raise(free, e) ELSE SegmentDone(free)

\* The try block is left, with error e or with none: the finally block runs.
ToFinally(cr, e) ==
  IF FinallyStatements(Kind(cr)) # <<>>
  THEN [cr EXCEPT !.phase = "finally", !.stmt = 1, !.err = e]
  ELSE Released(cr, e)

\* The awaited client.query() settles: ok, or rejected.
AfterStatement(cr, ok) ==
  LET kind == Kind(cr)
      logged == [cr EXCEPT !.log = Append(@, Event(cr, StatementName(cr), ok))]
      failure == <<"statement-failed", StatementName(cr)>>
  IN  IF cr.phase = "try"
      THEN IF ok
           THEN LET found == [logged EXCEPT !.results = @ \o Findings(kind, cr.stmt),
                                             !.details = @ \o Details(cr)]
                IN  IF cr.stmt < Len(TryStatements(kind, cr.req))
                    THEN [found EXCEPT !.stmt = @ + 1]
                    ELSE ToFinally(found, NoError)
           ELSE IF CatchesOwnErrors(kind)
                THEN ToFinally([logged EXCEPT !.results = Append(@, <<"check-error", kind>>)],
                               NoError)
                ELSE ToFinally(logged, failure)
      ELSE IF ok
           THEN IF cr.stmt < Len(FinallyStatements(kind))
                THEN [logged EXCEPT !.stmt = @ + 1]
                ELSE Released(logged, cr.err)
           \* the await inside finally throws: client.release() is not reached
           ELSE Raise([logged EXCEPT !.err = NoError], failure)

(***************************************************************************)
(* The CallTool handler (lines 865-1113) up to its first await.            *)
(***************************************************************************)
ReportHeadOf(cfg, dbId) ==
  << <<"title">>, <<"database", DatabaseConfigOf(cfg, dbId).name, dbId>>,
     <<"generated-at">>, <<"blank">> >>

ReportHead(dbId) == ReportHeadOf(configData, dbId)

Handle(r) ==
  LET cr == [IdleCall EXCEPT !.req = r]
  IN  IF r.name = "list_databases"
      THEN Return(cr, << <<"databases">> \o listDatabases >>)
      ELSE IF r.name \notin ToolNames
      THEN Throw(cr, <<"unknown-tool", r.name>>)
      ELSE IF r.name = "database_health_check"
      THEN LET dbConfig == getDatabaseConfig(r.database)
           IN  IF ~dbConfig.found
               THEN Throw(cr, <<"config-not-found", dbConfig.dbId>>)
               ELSE EnterSection([cr EXCEPT !.allResults = ReportHead(dbConfig.dbId)], 1)
      ELSE EnterSection(cr, 1)

\* The ListResources handler (lines 569-609) up to its first await.
HandleList(r) ==
  EnterSection([IdleCall EXCEPT !.req = r, !.allResults = <<DatabasesUri>>], 1)

\* A read that does not look at the last path component.
HandleReadAnySuffix(r) ==
  LET cr == [IdleCall EXCEPT !.req = r]
      parts == pathComponents(r.uri)
  IN  IF IsDatabasesPath(r.uri)
      THEN ReturnResource(cr, << <<"databases">> \o listDatabases >>)
      ELSE IF Len(parts) # 3
      THEN Throw(cr, <<"invalid-uri", "expected format">>)
      ELSE IF parts[1] \notin SeqToSet(databaseConfigs)
      THEN Throw(cr, <<"not-found", parts[1]>>)
      ELSE EnterSection(cr, 1)

\* The ReadResource handler (lines 612-667) up to its first await.
HandleRead(r) ==
  LET cr == [IdleCall EXCEPT !.req = r]
      parts == pathComponents(r.uri)
  IN  IF IsDatabasesPath(r.uri)
      THEN ReturnResource(cr, << <<"databases">> \o listDatabases >>)
      ELSE IF Len(parts) # 3
      THEN Throw(cr, <<"invalid-uri", "expected format">>)
      ELSE IF parts[3] # SCHEMA_PATH
      THEN Throw(cr, <<"invalid-uri", "must end with /schema">>)
      ELSE IF parts[1] \notin SeqToSet(databaseConfigs)
      THEN Throw(cr, <<"not-found", parts[1]>>)
      ELSE EnterSection(cr, 1)

\* A resources/list request arrives in slot c.
ListResources(c) ==
  /\ started = "running"
  /\ calls[c].pc = "idle"
  /\ calls' = [calls EXCEPT ![c] = HandleList([NoRequest EXCEPT !.name = "resources/list"])]
  /\ UNCHANGED <<stats, httpVars, started, configData, databaseConfigs, databasePools,
                 defaultDatabaseId, conns, txn, data>>

\* A resources/read request for uri arrives in slot c.
ReadResource(c, uri) ==
  /\ started = "running"
  /\ calls[c].pc = "idle"
  /\ calls' = [calls EXCEPT ![c] =
       HandleRead([NoRequest EXCEPT !.name = "resources/read", !.uri = uri])]
  /\ UNCHANGED <<stats, httpVars, started, configData, databaseConfigs, databasePools,
                 defaultDatabaseId, conns, txn, data>>

\* A tools/call request arrives in slot c.
CallTool(c, r) ==
  /\ started = "running"
  /\ calls[c].pc = "idle"
  /\ calls' = [calls EXCEPT ![c] = Handle(r)]
  /\ UNCHANGED <<stats, httpVars, started, configData, databaseConfigs, databasePools,
                 defaultDatabaseId, conns, txn, data>>

\* A pool that hands out a connection whether or not it is idle.
ConnectOkShared(c) ==
  /\ calls[c].pc = "connect"
  /\ \E k \in Slots :
       /\ conns' = [conns EXCEPT ![calls[c].db][k] = c]
       /\ calls' = [calls EXCEPT ![c] =
            [@ EXCEPT !.client = k, !.pc = "query", !.stmt = 1,
                      !.log = Append(@, Event(calls[c], "connect", TRUE))]]
  /\ UNCHANGED <<stats, httpVars, started, configData, databaseConfigs, databasePools,
                 defaultDatabaseId, txn, data>>

\* pool.connect() resolves with an idle connection of the pool.
ConnectOk(c) ==
  /\ calls[c].pc = "connect"
  /\ \E k \in Slots :
       /\ conns[calls[c].db][k] = 0
       /\ conns' = [conns EXCEPT ![calls[c].db][k] = c]
       /\ calls' = [calls EXCEPT ![c] =
            [@ EXCEPT !.client = k, !.pc = "query", !.stmt = 1,
                      !.log = Append(@, Event(calls[c], "connect", TRUE))]]
  /\ UNCHANGED <<stats, httpVars, started, configData, databaseConfigs, databasePools,
                 defaultDatabaseId, txn, data>>

\* pool.connect() rejects: no connection could be established.
ConnectError(c) ==
  /\ calls[c].pc = "connect"
  /\ calls' = [calls EXCEPT ![c] =
       Raise([@ EXCEPT !.log = Append(@, Event(calls[c], "connect", FALSE))],
             <<"connect-failed">>)]
  /\ UNCHANGED <<stats, httpVars, started, configData, databaseConfigs, databasePools,
                 defaultDatabaseId, conns, txn, data>>

\* The connection of call c goes back to its pool when the step released it.
PoolAfter(c, before, after) ==
  IF before.client # 0 /\ after.client = 0
  THEN [conns EXCEPT ![before.db][before.client] = 0]
  ELSE conns

\* The backend runs the awaited text and answers.
StatementRuns(c) ==
  LET cr == calls[c]
      r == RunText(Awaited(cr), Bound(cr), txn[cr.db][cr.client], data[cr.db])
      answered == IF cr.phase = "try" /\ r.ok THEN [cr EXCEPT !.rows = r.rows] ELSE cr
      after == AfterStatement(answered, r.ok)
  IN  /\ cr.pc = "query"
      /\ txn' = [txn EXCEPT ![cr.db][cr.client] = [mode |-> r.mode, work |-> r.work]]
      /\ data' = [data EXCEPT ![cr.db] = r.data]
      /\ calls' = [calls EXCEPT ![c] = after]
      /\ conns' = PoolAfter(c, cr, after)
      /\ UNCHANGED <<stats, httpVars, started, configData, databaseConfigs, databasePools,
                     defaultDatabaseId>>

\* client.query() rejects without the backend having run the text (the
\* connection broke).
StatementFails(c) ==
  LET cr == calls[c]
      after == AfterStatement(cr, FALSE)
  IN  /\ cr.pc = "query"
      /\ calls' = [calls EXCEPT ![c] = after]
      /\ conns' = PoolAfter(c, cr, after)
      /\ UNCHANGED <<stats, httpVars, started, configData, databaseConfigs, databasePools,
                     defaultDatabaseId, txn, data>>

\* A tools/list request arrives in slot c (lines 681-862).
ListTools(c) ==
  /\ started = "running"
  /\ calls[c].pc = "idle"
  /\ calls' = [calls EXCEPT ![c] =
       ReturnResource([IdleCall EXCEPT !.req = [NoRequest EXCEPT !.name = "tools/list"]],
                      <<addDatabaseParameter>>)]
  /\ UNCHANGED <<stats, httpVars, started, configData, databaseConfigs, databasePools,
                 defaultDatabaseId, conns, txn, data>>

(***************************************************************************)
(* runServer: the SSE sessions.                                            *)
(***************************************************************************)
SessionIds == {"s", "t"}

\* GET /sse/:sessionId (lines 1126-1139): a new transport is stored under
\* the session id, in place of the one that was there.
OpenSse(id) ==
  /\ started = "running"
  /\ Len(sse) < MaxSse
  /\ sse' = Append(sse, [id |-> id, open |-> TRUE])
  /\ transports' = [x \in DOMAIN transports \cup {id} |->
                      IF x = id THEN Len(sse) + 1 ELSE transports[x]]
  /\ UNCHANGED <<started, configData, databaseConfigs, databasePools, defaultDatabaseId,
                 conns, txn, data, calls, stats, replies>>

\* res.on('close') of connection n (lines 1133-1135): the entry of its
\* session id is deleted.
CloseSse(n) ==
  /\ n \in 1..Len(sse)
  /\ sse[n].open
  /\ sse' = [sse EXCEPT ![n].open = FALSE]
  /\ transports' = [x \in DOMAIN transports \ {sse[n].id} |-> transports[x]]
  /\ UNCHANGED <<started, configData, databaseConfigs, databasePools, defaultDatabaseId,
                 conns, txn, data, calls, stats, replies>>

\* POST /messages/:sessionId (lines 1142-1157): handed to the transport
\* stored under the id, or answered 404.
PostMessage(id) ==
  /\ started = "running"
  /\ Len(replies) < MaxPosts
  /\ replies' = Append(replies,
        IF id \in DOMAIN transports
        THEN [id |-> id, status |-> "handled", transport |-> transports[id]]
        ELSE [id |-> id, status |-> "404", transport |-> 0])
  /\ UNCHANGED <<started, configData, databaseConfigs, databasePools, defaultDatabaseId,
                 conns, txn, data, calls, stats, transports, sse>>

(***************************************************************************)
(* Specifications.                                                         *)
(***************************************************************************)
BootWith(cfgs, statistics) ==
  /\ started = "boot"
  /\ configData \in cfgs
  /\ databaseConfigs = <<>>
  /\ databasePools = <<>>
  /\ defaultDatabaseId = Undefined
  /\ conns = <<>>
  /\ txn = <<>>
  /\ data = <<>>
  /\ calls = [c \in Calls |-> IdleCall]
  /\ stats \in statistics
  /\ transports = <<>>
  /\ sse = <<>>
  /\ replies = <<>>

Boot(cfgs) == BootWith(cfgs, {DefaultStatistics})

\* The database argument of a request.
DatabaseArguments == {Undefined, "", "a", "b", "zz"}

ToolRequests(names, databases) ==
  {[NoRequest EXCEPT !.name = n, !.database = d] : n \in names \ {"query", "database_health_check"},
                                                    d \in databases}
  \cup {[NoRequest EXCEPT !.name = "query", !.database = d, !.sql = q] :
          d \in databases, q \in IF "query" \in names THEN SqlTexts ELSE {}}

TwoBackends ==
  [mode |-> "config", usable |-> TRUE, hasDatabases |-> TRUE,
   databases |-> <<"a", "b">>, defaultDatabase |-> "a", credentials |-> "p1"]

SingleBackend ==
  [mode |-> "single", usable |-> TRUE, hasDatabases |-> FALSE,
   databases |-> <<>>, defaultDatabase |-> Undefined, credentials |-> "p1"]

Init == Boot({TwoBackends, SingleBackend})

Requests == ToolRequests(StatementTools \cup {"list_databases", "buffer_health_check", "no_such_tool"},
                         DatabaseArguments)

\* The resource URIs read alongside the tool calls.
Uris == {[authority |-> FALSE, segs |-> <<"a", "t", "schema">>],
         [authority |-> FALSE, segs |-> <<"b", "t", "schema">>]}

Next ==
  \/ initializeDatabases
  \/ \E c \in Calls :
       \/ \E r \in Requests : CallTool(c, r)
       \/ ListResources(c)
       \/ \E uri \in Uris : ReadResource(c, uri)
       \/ ConnectOk(c)
       \/ ConnectError(c)
       \/ StatementRuns(c)
       \/ StatementFails(c)

Spec == Init /\ [][Next]_vars

\* Startup under every configuration, followed by one call.
InitStartup == Boot({cfg \in Configurations : Normal(cfg)})

StartupRequests ==
  ToolRequests({"list_databases", "delete_table", "buffer_health_check", "no_such_tool"},
               DatabaseArguments)
  \cup {[NoRequest EXCEPT !.name = "database_health_check", !.database = d,
                          !.typesGiven = TRUE, !.health_types = l] :
          d \in DatabaseArguments, l \in {<<>>, <<"index">>}}

NextStartup ==
  \/ initializeDatabases
  \/ \E r \in StartupRequests : CallTool(1, r)
  \/ ListTools(1)
  \/ ReadResource(1, [authority |-> FALSE, segs |-> <<"databases">>])
  \/ ConnectOk(1)
  \/ ConnectError(1)
  \/ StatementRuns(1)
  \/ StatementFails(1)

SpecStartup == InitStartup /\ [][NextStartup]_vars

\* One database_health_check at a time, on two backends.
HealthTypeLists ==
  {<<"all">>, <<>>, <<"index">>, <<"INDEX", "bogus">>, <<"vacuum", "buffer">>,
   <<"buffer", "connection">>, <<"sequence", "sequence">>,
   <<"replication", "constraint">>, <<"index", "all">>, <<"ALL">>}

HealthRequests ==
  {[NoRequest EXCEPT !.name = "database_health_check", !.database = d,
                     !.typesGiven = TRUE, !.health_types = l] :
     d \in {Undefined, "b", "zz"}, l \in HealthTypeLists}
  \cup {[NoRequest EXCEPT !.name = "database_health_check", !.database = d] :
          d \in {Undefined, "b", "zz"}}

InitHealth == Boot({TwoBackends})

NextHealth ==
  \/ initializeDatabases
  \/ \E r \in HealthRequests : CallTool(1, r)
  \/ ConnectOk(1)
  \/ ConnectError(1)
  \/ StatementRuns(1)
  \/ StatementFails(1)

SpecHealth == InitHealth /\ [][NextHealth]_vars

\* The resource handlers on two backends, next to create_table and
\* delete_table calls that change what there is to list.
ReadUris ==
  {DatabasesUri, TableUri("a", "t"), TableUri("b", "t"), TableUri("", "t")}
  \cup {[authority |-> FALSE, segs |-> p] :
          p \in {<<"databases">>, <<"a", "t", "schema">>, <<"b", "t", "schema">>,
                 <<"b", "u", "schema">>, <<"zz", "t", "schema">>, <<"a", "t", "columns">>,
                 <<"a", "t">>, <<"a", "t", "schema", "x">>, <<"databases", "">>, <<>>}}
  \cup {[authority |-> TRUE, segs |-> <<"h", "b", "t", "schema">>],
         [authority |-> TRUE, segs |-> <<"h", "databases">>]}

ResourceRequests ==
  ToolRequests({"create_table", "delete_table", "list_databases"}, {Undefined, "b"})

InitResources == Boot({TwoBackends})

NextResources ==
  \/ initializeDatabases
  \/ \E c \in Calls :
       \/ \E r \in ResourceRequests : CallTool(c, r)
       \/ ListResources(c)
       \/ \E uri \in ReadUris : ReadResource(c, uri)
       \/ ConnectOk(c)
       \/ ConnectError(c)
       \/ StatementRuns(c)
       \/ StatementFails(c)

SpecResources == InitResources /\ [][NextResources]_vars

\* The tools that build a statement from their arguments, on one backend.
ValueMaps ==
  {<<>>,
   << [k |-> "a", v |-> "1"] >>, << [k |-> "a", v |-> "01"] >>, << [k |-> "a", v |-> "x"] >>,
   << [k |-> "b", v |-> "x"] >>, << [k |-> "c", v |-> "1"] >>,
   << [k |-> "a", v |-> "1"], [k |-> "b", v |-> "x"] >>,
   << [k |-> "b", v |-> "y"], [k |-> "a", v |-> "2"] >>}

ConditionMaps ==
  {<<>>, << [k |-> "a", v |-> "1"] >>, << [k |-> "b", v |-> "x"] >>,
   << [k |-> "a", v |-> "2"], [k |-> "b", v |-> "y"] >>,
   << [k |-> "a", v |-> "1"], [k |-> "b", v |-> "x"] >>}

ColumnLists ==
  {DefaultColumns, << [name |-> "c", type |-> "text"] >>, << [name |-> "a", type |-> "text"] >>}

EntryRequests ==
  {[NoRequest EXCEPT !.name = "insert_entry", !.tableName = t, !.values = v] :
     t \in {"t", "u"}, v \in ValueMaps}
  \cup {[NoRequest EXCEPT !.name = "update_entry", !.values = v, !.conditions = w] :
          v \in ValueMaps, w \in ConditionMaps}
  \cup {[NoRequest EXCEPT !.name = "delete_entry", !.tableName = t, !.conditions = w] :
          t \in {"t", "u"}, w \in ConditionMaps}
  \cup {[NoRequest EXCEPT !.name = "create_table", !.columns = cols] : cols \in ColumnLists}
  \cup {[NoRequest EXCEPT !.name = "delete_table", !.tableName = t] : t \in {"t", "u"}}
  \cup {[NoRequest EXCEPT !.name = "query", !.sql = <<"SELECT">>]}

InitEntries == Boot({SingleBackend})

NextEntries ==
  \/ initializeDatabases
  \/ \E c \in Calls :
       \/ \E r \in EntryRequests : CallTool(c, r)
       \/ ConnectOk(c)
       \/ ConnectError(c)
       \/ StatementRuns(c)
       \/ StatementFails(c)

SpecEntries == InitEntries /\ [][NextEntries]_vars

\* The probes that classify a statistic, over the statistics a backend can
\* answer with, next to the resource listing.
Statistics == [indexRate : RateTexts, tableRate : {"null", "0.99"}, age : Ages]

Thresholds == {0, 500, 950, 999, 1000}

ProbeRequests ==
  {[NoRequest EXCEPT !.name = "buffer_health_check", !.database = d] : d \in {Undefined, "b"}}
  \cup {[NoRequest EXCEPT !.name = "buffer_health_check", !.thresholdGiven = TRUE,
                          !.threshold = t] : t \in Thresholds}
  \cup {[NoRequest EXCEPT !.name = "database_health_check", !.typesGiven = TRUE,
                          !.health_types = l] :
          l \in {<<"vacuum">>, <<"buffer", "vacuum">>, <<"index", "connection">>}}

InitProbes == BootWith({TwoBackends}, Statistics)

NextProbes ==
  \/ initializeDatabases
  \/ \E r \in ProbeRequests : CallTool(1, r)
  \/ ListResources(1)
  \/ ConnectOk(1)
  \/ ConnectError(1)
  \/ StatementRuns(1)
  \/ StatementFails(1)

SpecProbes == InitProbes /\ [][NextProbes]_vars

\* The HTTP endpoints of runServer: SSE connections that open and close and
\* messages posted to their sessions.
InitSessions == Boot({SingleBackend})

NextSessions ==
  \/ initializeDatabases
  \/ \E id \in SessionIds : OpenSse(id)
  \/ \E n \in 1..MaxSse : CloseSse(n)
  \/ \E id \in SessionIds : PostMessage(id)

SpecSessions == InitSessions /\ [][NextSessions]_vars

(***************************************************************************)
(* Properties.                                                             *)
(***************************************************************************)
Registered(d) == d \in SeqToSet(databasePools)

Connects(l) == Len(SelectSeq(l, LAMBDA e : e.op = "connect" /\ e.ok))
Releases(l) == Len(SelectSeq(l, LAMBDA e : e.op = "release"))

Holds(c) == \E b \in DOMAIN conns : \E k \in Slots : conns[b][k] = c

Quiescent == \A c \in Calls : calls[c].pc \in {"idle", "done"}

\* The events of a log without their segment and section.
Order(l) == [i \in 1..Len(l) |-> <<l[i].op, l[i].ok>>]

IsPrefix(s, t) == Len(s) <= Len(t) /\ \A i \in 1..Len(s) : s[i] = t[i]

\* C1: every call that acquired a pooled connection has released it exactly
\* once when it ends, whether it succeeded or a statement between acquire and
\* release failed, so the call holds no connection of any pool afterwards.
C1_EveryAcquireReleasedOnce ==
  \A c \in Calls :
    calls[c].pc = "done" =>
      /\ Releases(calls[c].log) = Connects(calls[c].log)
      /\ ~Holds(c)

\* C2: a step of a query call never changes the committed data of a backend,
\* whatever sql text the client supplied, and a connection that is back in
\* its pool has no open transaction.
C2_QueryPersistsNothing ==
  [][\A c \in Calls :
       (calls[c].req.name = "query" /\ calls'[c] # calls[c]) =>
         /\ data' = data
         /\ \A b \in DOMAIN conns' : \A k \in Slots :
              conns'[b][k] = 0 => txn'[b][k].mode = "none"]_vars

\* The orders in which a query call can use its connection, to their end.
\* When the ROLLBACK itself is rejected the handler ends there.
QueryOrders ==
  { << <<"connect", FALSE>> >> }
  \cup { << <<"connect", TRUE>>, <<"BEGIN", TRUE>>, <<"sql", y>>, <<"ROLLBACK", TRUE>>,
            <<"release", TRUE>> >> : y \in BOOLEAN }
  \cup { << <<"connect", TRUE>>, <<"BEGIN", FALSE>>, <<"ROLLBACK", TRUE>>,
            <<"release", TRUE>> >> }
  \cup { << <<"connect", TRUE>>, <<"BEGIN", TRUE>>, <<"sql", y>>, <<"ROLLBACK", FALSE>> >> :
           y \in BOOLEAN }
  \cup { << <<"connect", TRUE>>, <<"BEGIN", FALSE>>, <<"ROLLBACK", FALSE>> >> }

C4_ResolutionByArgument ==
  \A c \in Calls :
    (calls[c].pc # "idle" /\ calls[c].req.name \in StatementTools) =>
      LET d == calls[c].req.database
      IN  /\ Registered(d) => calls[c].db = d
          /\ d = Undefined => calls[c].db = defaultDatabaseId
          /\ (d # Undefined /\ ~Registered(d)) =>
               /\ calls[c].resp.how = "throw"
               /\ calls[c].resp.content = << <<"not-found", d>> >>
               /\ calls[c].log = <<>>

\* C5: once no call is in flight, every pool has all its connections free
\* again, also after calls that ended in an error.
C5_PoolsFreeWhenQuiescent ==
  Quiescent => \A b \in DOMAIN conns : \A k \in Slots : conns[b][k] = 0

\* A call of a statement tool failed: its backend is unknown, the connection
\* could not be established, or a statement was rejected.
CallFailed(c) ==
  \/ ~getDatabasePool(calls[c].req.database).found
  \/ \E i \in 1..Len(calls[c].log) : ~calls[c].log[i].ok

\* C8: a tool call that failed ends by returning a response whose error flag
\* is true and whose content carries the message; a call that succeeded
\* returns the flag false; a call ends in no other way.
C8_FailureReturnsErrorFlag ==
  \A c \in Calls :
    (calls[c].pc = "done" /\ calls[c].req.name \in StatementTools) =>
      /\ calls[c].resp.how = "return"
      /\ calls[c].resp.isError = (IF CallFailed(c) THEN "true" ELSE "false")
      /\ calls[c].resp.content # <<>>

(***************************************************************************)
(* Properties of the health report (SpecHealth).                           *)
(***************************************************************************)
Blank == <<"blank">>

\* The lines of a report after its four-line head, cut after every blank
\* line: one chunk per section.
RECURSIVE Chunks(_, _)
Chunks(lines, cur) ==
  IF lines = <<>> THEN (IF cur = <<>> THEN <<>> ELSE <<cur>>)
  ELSE IF Head(lines) = Blank
  THEN <<Append(cur, Blank)>> \o Chunks(Tail(lines), <<>>)
  ELSE Chunks(Tail(lines), Append(cur, Head(lines)))

SectionChunks(cr) == Chunks(SubSeq(cr.allResults, 5, Len(cr.allResults)), <<>>)

\* The section header printed for each name that selects a probe.
HeaderOf(name) ==
  CASE name \in {"index", "INDEX"} -> <<"header", "INDEX">>
    [] name = "connection" -> <<"header", "CONNECTION">>
    [] name = "vacuum" -> <<"header", "VACUUM">>
    [] name = "sequence" -> <<"header", "SEQUENCE">>
    [] name = "replication" -> <<"header", "REPLICATION">>
    [] name = "buffer" -> <<"header", "BUFFER">>
    [] name = "constraint" -> <<"header", "CONSTRAINT">>
    [] name = "bogus" -> <<"header", "BOGUS">>
    [] OTHER -> <<"header", name>>

\* The probe a name selects.
ProbeOf(name) == IF name = "INDEX" THEN "index" ELSE name

\* The findings of a probe none of whose steps failed.
IntactFindings(name) ==
  LET p == ProbeOf(name)
  IN  CASE p \in {"index", "vacuum"} -> << <<"finding", p, "first">>, <<"finding", p, "second">> >>
        [] p \in {"connection", "sequence", "replication", "constraint"} ->
             << <<"finding", p, "first">> >>
        [] p = "buffer" -> << <<"rate", "indexRate">>, <<"rate", "tableRate">> >>
        [] OTHER -> << <<"unknown-type", name>> >>

\* The findings a probe has pushed when its statement number n + 1 fails.
FindingsBefore(name, n) ==
  LET p == ProbeOf(name)
  IN  IF p \in {"index", "vacuum"} /\ n = 1 THEN << <<"finding", p, "first">> >> ELSE <<>>

\* What happened in section i of a call.
SectionEvents(cr, i) == SelectSeq(cr.log, LAMBDA e : e.sec = i)
SectionFailed(cr, i) == \E j \in 1..Len(SectionEvents(cr, i)) : ~SectionEvents(cr, i)[j].ok
AnsweredStatements(cr, i) ==
  Len(SelectSeq(SectionEvents(cr, i), LAMBDA e : e.ok /\ e.op \notin {"connect", "release"}))
AcquisitionFailed(cr, i) ==
  \E j \in 1..Len(SectionEvents(cr, i)) :
     SectionEvents(cr, i)[j].op = "connect" /\ ~SectionEvents(cr, i)[j].ok

RequestedTypes(cr) == IF "all" \in SeqToSet(healthTypesOf(cr.req)) THEN Catalog
                      ELSE healthTypesOf(cr.req)

ReportReturned(cr) ==
  /\ cr.req.name = "database_health_check"
  /\ cr.pc = "done"
  /\ cr.req.database \in {Undefined, "a", "b"}

ErrorRunningSection(name) == <<HeaderOf(name), <<"error-running", name>>, Blank>>

\* C6 as stated: the section of a probe that failed internally holds
\* exactly one line, "Error running <probe> health check: ...", every other
\* section is intact and in order, and the call still returns its report.
C6_FailedProbeIsOneErrorRunningLine ==
  \A c \in Calls :
    ReportReturned(calls[c]) =>
      LET types == RequestedTypes(calls[c])
          chunks == SectionChunks(calls[c])
      IN  /\ calls[c].resp.how = "return"
          /\ Len(chunks) = Len(types)
          /\ \A i \in 1..Len(types) :
               chunks[i] = IF SectionFailed(calls[c], i)
                           THEN ErrorRunningSection(types[i])
                           ELSE <<HeaderOf(types[i])>> \o IntactFindings(types[i]) \o <<Blank>>

\* C6 as amended: the section of a failed probe ends with exactly one error
\* line.  It is "Error running <probe> health check: ..." alone when the
\* probe's connection acquisition failed or the probe is buffer; it is
\* "<Probe> health check error: ...", after the findings gathered before the
\* failing statement, when a statement of one of the six other probes failed.
\* Every other section is intact and in order, and the call returns the
\* report with the error flag false.
C6_FailedProbeIsIsolated ==
  \A c \in Calls :
    ReportReturned(calls[c]) =>
      LET types == RequestedTypes(calls[c])
          chunks == SectionChunks(calls[c])
      IN  /\ calls[c].resp = [how |-> "return", isError |-> "false",
                              content |-> calls[c].allResults]
          /\ Len(chunks) = Len(types)
          /\ \A i \in 1..Len(types) :
               chunks[i] =
                 IF ~SectionFailed(calls[c], i)
                 THEN <<HeaderOf(types[i])>> \o IntactFindings(types[i]) \o <<Blank>>
                 ELSE IF AcquisitionFailed(calls[c], i) \/ ProbeOf(types[i]) = "buffer"
                 THEN ErrorRunningSection(types[i])
                 ELSE <<HeaderOf(types[i])>>
                      \o FindingsBefore(types[i], AnsweredStatements(calls[c], i))
                      \o << <<"check-error", ProbeOf(types[i])>>, Blank >>

\* C6 witness: a report whose vacuum probe failed at its second statement,
\* followed by an intact buffer section.
C6_Witness ==
  \E c \in Calls :
    /\ ReportReturned(calls[c])
    /\ calls[c].req.health_types = <<"vacuum", "buffer">>
    /\ SectionFailed(calls[c], 1) /\ AnsweredStatements(calls[c], 1) = 1
    /\ ~SectionFailed(calls[c], 2)

CatalogHeaders ==
  << <<"header", "INDEX">>, <<"header", "CONNECTION">>, <<"header", "VACUUM">>,
     <<"header", "SEQUENCE">>, <<"header", "REPLICATION">>, <<"header", "BUFFER">>,
     <<"header", "CONSTRAINT">> >>

Headers(cr) == SelectSeq(cr.allResults, LAMBDA x : x[1] = "header")

\* The sections in which a connection was asked for, in the order of asking.
ProbedSections(cr) ==
  LET asked == SelectSeq(cr.log, LAMBDA e : e.op = "connect" /\ e.kind # "tableRate")
  IN  [i \in 1..Len(asked) |-> asked[i].sec]

AllRequested(cr) ==
  /\ cr.req.name = "database_health_check"
  /\ ~cr.req.typesGiven \/ cr.req.health_types = <<"all">>
  /\ cr.req.database \in {Undefined, "a", "b"}

\* C7: with health_types ["all"] or absent, the report has exactly seven
\* sections, index, connection, vacuum, sequence, replication, buffer,
\* constraint in this order, and the probes run in the same order.
C7_AllIsTheCatalogInOrder ==
  \A c \in Calls :
    (AllRequested(calls[c]) /\ calls[c].pc # "idle") =>
      /\ IsPrefix(Headers(calls[c]), CatalogHeaders)
      /\ IsPrefix(ProbedSections(calls[c]), <<1, 2, 3, 4, 5, 6, 7>>)
      /\ \A i \in 1..Len(calls[c].log) :
           calls[c].log[i].kind \in
             (IF calls[c].log[i].sec = 6 THEN {"indexRate", "tableRate"}
              ELSE {Catalog[calls[c].log[i].sec]})
      /\ calls[c].pc = "done" =>
           /\ Headers(calls[c]) = CatalogHeaders
           /\ ProbedSections(calls[c]) = <<1, 2, 3, 4, 5, 6, 7>>
           /\ Len(SectionChunks(calls[c])) = 7

\* C7 witness: a finished report for a call that gave no health_types.
C7_Witness ==
  \E c \in Calls :
    /\ AllRequested(calls[c]) /\ ~calls[c].req.typesGiven
    /\ calls[c].pc = "done"
    /\ Len(Headers(calls[c])) = 7

(***************************************************************************)
(* Properties of startup (SpecStartup).                                    *)
(***************************************************************************)

\* C9: after startup the default backend id is a key of the backend map, the
\* map is not empty, and the pool map has the keys of the descriptor map.
C9_RegistryInvariant ==
  started = "running" =>
    /\ defaultDatabaseId \in SeqToSet(databaseConfigs)
    /\ databaseConfigs # <<>>
    /\ SeqToSet(databasePools) = SeqToSet(databaseConfigs)

\* C10: in config mode, when the configured backend set is missing or empty
\* or the configured default id is not one of the configured ids, startup
\* aborts: no pool is created and no request is ever served.
C10_BadConfigurationAborts ==
  ( /\ started # "boot"
    /\ configData.mode = "config"
    /\ configData.usable
    /\ \/ ~configData.hasDatabases
       \/ configData.databases = <<>>
       \/ configData.defaultDatabase \notin SeqToSet(configData.databases) )
  => /\ started = "aborted"
     /\ databasePools = <<>>
     /\ \A c \in Calls : calls[c].pc = "idle"

(***************************************************************************)
(* Properties of the pools under concurrent calls (Spec).                  *)
(***************************************************************************)

\* The backend a call targets: the database argument of a tool call, the
\* first path component of a readable table URI.
Targets(cr, b) ==
  \/ cr.req.name \in ToolNames \ {"list_databases"} /\ cr.req.database = b
  \/ /\ IsRead(cr)
     /\ ~IsDatabasesPath(cr.req.uri)
     /\ Len(pathComponents(cr.req.uri)) = 3
     /\ pathComponents(cr.req.uri)[1] = b

Free(b) == \E k \in Slots : conns[b][k] = 0

\* C11: a call that targets a registered backend b asks only b's pool for
\* connections, holds connections of b only and sends statements on b only;
\* whenever it waits for a connection and b's pool has one free, it can get
\* it, whatever the state of the other pools.
C11_BackendsAreIsolated ==
  \A c \in Calls : \A b \in {"a", "b"} :
    (Registered(b) /\ calls[c].pc # "idle" /\ Targets(calls[c], b)) =>
      /\ calls[c].db \in {Undefined, b}
      /\ \A i \in 1..Len(calls[c].log) : calls[c].log[i].db = b
      /\ \A x \in DOMAIN conns : \A k \in Slots : conns[x][k] = c => x = b
      /\ (calls[c].pc = "connect" /\ Free(b)) => ENABLED ConnectOk(c)

\* C11 witness: a call on backend b has returned its result while the only
\* connection of backend a is lost to a call that has ended.
C11_Witness ==
  \E c, d \in Calls :
    /\ Registered("a") /\ Registered("b")
    /\ calls[d].pc = "done" /\ conns["a"][1] = d
    /\ calls[c].req.database = "b" /\ calls[c].req.name = "insert_entry"
    /\ calls[c].pc = "done" /\ calls[c].resp.how = "return"
    /\ Len(calls[d].log) < 5

\* C12: a connection is in use by one call at a time: a call that awaits a
\* statement holds its connection, no two calls hold the same connection,
\* and a connection with an open transaction is held by the query call that
\* opened it.
C12_ConnectionsAreNotShared ==
  /\ \A c \in Calls :
       calls[c].pc = "query" =>
         /\ calls[c].client # 0
         /\ conns[calls[c].db][calls[c].client] = c
  /\ \A c, d \in Calls :
       (c # d /\ calls[c].client # 0 /\ calls[d].client # 0) =>
         <<calls[c].db, calls[c].client>> # <<calls[d].db, calls[d].client>>
  /\ \A b \in DOMAIN txn : \A k \in Slots :
       txn[b][k].mode # "none" =>
         /\ conns[b][k] # 0
         /\ calls[conns[b][k]].req.name = "query"
         /\ calls[conns[b][k]].client = k

\* C12 witness: a query call is inside its transaction on the connection of
\* backend a while another call waits for a connection of the same pool.
C12_Witness ==
  \E c, d \in Calls :
    /\ calls[c].req.name = "query" /\ calls[c].pc = "query" /\ calls[c].stmt = 2
    /\ calls[c].db = "a" /\ txn["a"][calls[c].client].mode = "ro"
    /\ calls[d].req.name = "insert_entry" /\ calls[d].pc = "connect" /\ calls[d].db = "a"

ConnectAttempts(l) == Len(SelectSeq(l, LAMBDA e : e.op = "connect"))
Sends(l, op) == Len(SelectSeq(l, LAMBDA e : e.op = op))

\* The name under which the log has the statement of each tool.
ToolStatement(name) ==
  CASE name = "query" -> "sql"
    [] name = "create_table" -> "CREATE"
    [] name = "insert_entry" -> "INSERT"
    [] name = "update_entry" -> "UPDATE"
    [] name = "delete_entry" -> "DELETE"
    [] name = "delete_table" -> "DROP"
    [] OTHER -> "none"

\* C13: within one call of a statement tool the pool is asked for a
\* connection at most once and the tool's statement is sent at most once,
\* also after a failure.
C13_NoRetries ==
  \A c \in Calls :
    calls[c].req.name \in StatementTools =>
      /\ ConnectAttempts(calls[c].log) <= 1
      /\ Sends(calls[c].log, ToolStatement(calls[c].req.name)) <= 1
      /\ Sends(calls[c].log, "BEGIN") <= 1

\* C13 witness: an update_entry call has ended in an error after its one
\* statement was rejected.
C13_Witness ==
  \E c \in Calls :
    /\ calls[c].req.name = "update_entry" /\ calls[c].pc = "done"
    /\ calls[c].resp.how = "throw"
    /\ ConnectAttempts(calls[c].log) = 1
    /\ \E i \in 1..Len(calls[c].log) : calls[c].log[i].op = "UPDATE" /\ ~calls[c].log[i].ok

\* C19: the statement of delete_table is DROP TABLE IF EXISTS <tableName>;
\* whenever a delete_table call awaits it, the backend answers it with
\* success, the call then returns its confirmation, the backend is left
\* without the table (unchanged when it had none), and answering the same
\* statement once more gives the same state and the same answer.
C19_DeleteTableIdempotent ==
  \A c \in Calls :
    (calls[c].req.name = "delete_table" /\ calls[c].pc = "query") =>
      LET cr == calls[c]
          once == RunText(Awaited(cr), Bound(cr), txn[cr.db][cr.client], data[cr.db])
          twice == RunText(Awaited(cr), Bound(cr), [mode |-> once.mode, work |-> once.work],
                           once.data)
      IN  /\ StatementText(cr) = <<"DROP TABLE IF EXISTS", cr.req.tableName>>
          /\ once.ok /\ twice.ok
          /\ once.data = NoTable
          /\ ~data[cr.db].exists => once.data = data[cr.db]
          /\ twice.data = once.data /\ twice.rows = once.rows
          /\ AfterStatement(cr, once.ok).resp =
               [how |-> "return", isError |-> "false",
                content |-> << <<"result", "delete_table">> >>]

\* C19 witness: after one delete_table call has returned its confirmation,
\* a second one awaits its statement on the same backend, which has no table.
C19_Witness ==
  \E c, d \in Calls :
    /\ calls[d].req.name = "delete_table" /\ calls[d].req.database = "b"
    /\ calls[d].pc = "done" /\ calls[d].resp.how = "return"
    /\ calls[c].req.name = "delete_table" /\ calls[c].pc = "query" /\ calls[c].db = "b"
    /\ data["b"] = NoTable

(***************************************************************************)
(* Properties of the statement texts and of the stored rows (SpecEntries). *)
(***************************************************************************)
EntryTools == {"insert_entry", "update_entry", "delete_entry"}

\* The statements a call has sent.
Statements(cr) == SelectSeq(cr.log, LAMBDA e : e.op \notin {"connect", "release"})

Keys(m) == [i \in 1..Len(m) |-> m[i].k]

\* The strings the requests carry as values.
ValueStrings == {"1", "01", "2", "x", "y"}
Dollars == {Dollar(k) : k \in 1..6}

First(text, tok) ==
  CHOOSE i \in 1..Len(text) : text[i] = tok /\ \A j \in 1..(i - 1) : text[j] # tok
Count(text, tok) == Cardinality({i \in 1..Len(text) : text[i] = tok})
Without(seq, sep) == SelectSeq(seq, LAMBDA x : x # sep)

\* The clauses "column = placeholder" of a SET or WHERE part.
Clauses(part, sep) ==
  LET bare == Without(part, sep)
  IN  [i \in 1..(Len(bare) \div 3) |-> SubSeq(bare, 3 * i - 2, 3 * i)]

SetPart(text) == SubSeq(text, 4, First(text, "WHERE") - 1)
WherePart(text) == SubSeq(text, First(text, "WHERE") + 1, Len(text) - 1)

\* The column list of an INSERT text.
InsertColumns(text) == Without(SubSeq(text, 4, First(text, ")") - 1), ",")

\* The value the request holds for the column that placeholder $k stands
\* with in the text of event e.
PairedValue(e, r, k) ==
  LET at == First(e.text, Dollar(k))
  IN  CASE r.name = "insert_entry" -> MapGet(r.values, InsertColumns(e.text)[k])
        [] r.name = "delete_entry" -> MapGet(r.conditions, e.text[at - 2])
        [] r.name = "update_entry" ->
             IF at < First(e.text, "WHERE") THEN MapGet(r.values, e.text[at - 2])
             ELSE MapGet(r.conditions, e.text[at - 2])

\* C14: the statement text of insert_entry, update_entry and delete_entry
\* holds none of the values; two calls of one tool with the same table name
\* and the same keys send the same text; the text has one placeholder per
\* bound parameter, and parameter k is the value of the column that $k
\* stands with.
C14_ValuesAreBoundNotSpliced ==
  \A c \in Calls :
    calls[c].req.name \in EntryTools =>
      \A i \in 1..Len(Statements(calls[c])) :
        LET e == Statements(calls[c])[i]
            r == calls[c].req
        IN  /\ \A j \in 1..Len(e.text) : e.text[j] \notin ValueStrings
            /\ Cardinality({j \in 1..Len(e.text) : e.text[j] \in Dollars}) = Len(e.params)
            /\ \A k \in 1..Len(e.params) :
                 /\ Count(e.text, Dollar(k)) = 1
                 /\ e.params[k] = PairedValue(e, r, k)
            /\ \A d \in Calls : \A j \in 1..Len(Statements(calls[d])) :
                 ( /\ calls[d].req.name = r.name
                   /\ calls[d].req.tableName = r.tableName
                   /\ Keys(calls[d].req.values) = Keys(r.values)
                   /\ Keys(calls[d].req.conditions) = Keys(r.conditions) )
                 => Statements(calls[d])[j].text = e.text

\* C14 witness: two insert_entry calls with the same table and key, and
\* different values, have both sent their statement.
C14_Witness ==
  \E c, d \in Calls :
    /\ calls[c].req.name = "insert_entry" /\ calls[d].req.name = "insert_entry"
    /\ calls[c].req.tableName = calls[d].req.tableName
    /\ calls[c].req.values = << [k |-> "a", v |-> "1"] >>
    /\ calls[d].req.values = << [k |-> "a", v |-> "x"] >>
    /\ Statements(calls[c]) # <<>> /\ Statements(calls[d]) # <<>>

\* C15: the statement text of create_table, delete_table, insert_entry,
\* update_entry and delete_entry holds no string of the caller: two calls of
\* one tool whose arguments have the same numbers of columns, values and
\* conditions send the same text.
C15_NoCallerStringInText ==
  \A c, d \in Calls :
    ( /\ calls[c].req.name \in StatementTools \ {"query"}
      /\ calls[d].req.name = calls[c].req.name
      /\ Len(calls[d].req.columns) = Len(calls[c].req.columns)
      /\ Len(calls[d].req.values) = Len(calls[c].req.values)
      /\ Len(calls[d].req.conditions) = Len(calls[c].req.conditions) )
    => \A i \in 1..Len(Statements(calls[c])) : \A j \in 1..Len(Statements(calls[d])) :
         Statements(calls[c])[i].text = Statements(calls[d])[j].text

\* C16: the text of update_entry with n values and m conditions has the SET
\* clauses key = $1 .. key = $n in the key order of values, separated by
\* commas, the WHERE clauses key = $n+1 .. key = $n+m in the key order of
\* conditions, joined by AND, and its parameters are the n values followed
\* by the m condition values.
C16_UpdatePlaceholdersInOrder ==
  \A c \in Calls :
    calls[c].req.name = "update_entry" =>
      \A i \in 1..Len(Statements(calls[c])) :
        LET e == Statements(calls[c])[i]
            values == calls[c].req.values
            conditions == calls[c].req.conditions
            n == Len(values)
            m == Len(conditions)
        IN  /\ SubSeq(e.text, 1, 3) = <<"UPDATE", calls[c].req.tableName, "SET">>
            /\ Count(e.text, "WHERE") = 1
            /\ Len(Without(SetPart(e.text), ",")) = 3 * n
            /\ Count(SetPart(e.text), ",") = (IF n = 0 THEN 0 ELSE n - 1)
            /\ Clauses(SetPart(e.text), ",") =
                 [x \in 1..n |-> <<values[x].k, "=", Dollar(x)>>]
            /\ Len(Without(WherePart(e.text), "AND")) = 3 * m
            /\ Count(WherePart(e.text), "AND") = (IF m = 0 THEN 0 ELSE m - 1)
            /\ Clauses(WherePart(e.text), "AND") =
                 [x \in 1..m |-> <<conditions[x].k, "=", Dollar(n + x)>>]
            /\ e.params = [x \in 1..(n + m) |->
                             IF x <= n THEN values[x].v ELSE conditions[x - n].v]

\* C16 witness: an update_entry call with two values and two conditions has
\* had its statement answered.
C16_Witness ==
  \E c \in Calls :
    /\ calls[c].req.name = "update_entry"
    /\ Len(calls[c].req.values) = 2 /\ Len(calls[c].req.conditions) = 2
    /\ Keys(calls[c].req.values) # Keys(calls[c].req.conditions)
    /\ Statements(calls[c]) # <<>> /\ Statements(calls[c])[1].ok

\* An insert_entry call has returned the row it inserted.
Inserted(cr) ==
  /\ cr.req.name = "insert_entry"
  /\ cr.pc = "done" /\ cr.resp.how = "return"
  /\ Len(cr.rows) = 1

\* The row holds the values of the request, as the columns store them.
HoldsValues(t, row, values) ==
  \A j \in 1..Len(values) :
    row[ColumnIndex(t, values[j].k)] = Typed(ColumnType(t, values[j].k), values[j].v)

\* C20: once insert_entry has returned the inserted row, a "SELECT * FROM
\* tableName" of the query tool that the same backend answers afterwards
\* returns that row, which holds the inserted values as its columns store
\* them.
C20_InsertThenQueryRoundTrip ==
  [][\A c, d \in Calls :
       ( /\ Inserted(calls[c])
         /\ calls[d].req.name = "query" /\ calls[d].req.sql = <<"SELECT">>
         /\ calls[d].db = calls[c].db
         /\ calls[d].pc = "query" /\ calls[d].phase = "try" /\ calls[d].stmt = 2
         /\ Len(calls'[d].log) > Len(calls[d].log)
         /\ calls'[d].log[Len(calls'[d].log)].ok )
       => /\ \E i \in 1..Len(calls'[d].rows) : calls'[d].rows[i] = calls[c].rows[1]
          /\ HoldsValues(data[calls[c].db], calls[c].rows[1], calls[c].req.values)
          /\ calls[c].rows[1] \in SeqToSet(data[calls[c].db].rows)]_vars

\* C20 witness: insert_entry stored "01" in the integer column and returned
\* the row, and a query on the same backend has returned that row.
C20_Witness ==
  \E c, d \in Calls :
    /\ Inserted(calls[c]) /\ calls[c].req.values = << [k |-> "a", v |-> "01"] >>
    /\ calls[d].req.name = "query" /\ calls[d].pc = "done" /\ calls[d].resp.how = "return"
    /\ calls[d].db = calls[c].db
    /\ calls[c].rows[1] \in SeqToSet(calls[d].rows)

(***************************************************************************)
(* Properties of the resources (SpecResources).                            *)
(***************************************************************************)

\* A call ended because a connection could not be had or a statement was
\* rejected.
BackendFailed(cr) == \E i \in 1..Len(cr.log) : ~cr.log[i].ok

\* C17: a URI that the resource listing has returned is accepted by the
\* resource read: reading the databases URI returns the backend list, and
\* reading the URI of table t of backend b returns the columns of t unless
\* the backend fails.
C17_ListedUrisAreReadable ==
  \A c, d \in Calls :
    ( /\ IsListing(calls[d]) /\ calls[d].pc = "done"
      /\ IsRead(calls[c]) /\ calls[c].pc = "done"
      /\ calls[c].req.uri \in SeqToSet(calls[d].resp.content) )
    => \/ BackendFailed(calls[c])
       \/ /\ calls[c].resp.how = "return"
          /\ calls[c].req.uri = DatabasesUri =>
               calls[c].resp.content = << <<"databases">> \o listDatabases >>
          /\ calls[c].req.uri # DatabasesUri =>
               /\ calls[c].db = calls[c].req.uri.segs[1]
               /\ Len(calls[c].rows) > 0

\* The descriptive errors of the resource read.
ReadErrors(uri) ==
  {<<"invalid-uri", "expected format">>, <<"invalid-uri", "must end with /schema">>}
  \cup {<<"not-found", x>> : x \in SeqToSet(pathname(uri))}

\* The path of the URI is not the databases listing and is not
\* <backend>/<table>/schema for a configured backend.
Unreadable(uri) ==
  /\ pathname(uri) # <<"databases">>
  /\ \/ Len(pathComponents(uri)) # 3
     \/ pathComponents(uri)[3] # "schema"
     \/ pathComponents(uri)[1] \notin SeqToSet(databaseConfigs)

\* C18: a resource read whose path is neither the databases listing nor
\* three segments, or whose third segment is not "schema", or whose first
\* segment is not a configured backend, ends at once with a descriptive
\* error, having asked no pool for a connection and sent no statement.
C18_BadReadFailsWithoutConnection ==
  \A c \in Calls :
    (IsRead(calls[c]) /\ calls[c].pc # "idle" /\ Unreadable(calls[c].req.uri)) =>
      /\ calls[c].pc = "done"
      /\ calls[c].resp.how = "throw"
      /\ \E msg \in ReadErrors(calls[c].req.uri) : calls[c].resp.content = <<msg>>
      /\ calls[c].log = <<>>
      /\ calls[c].db = Undefined
      /\ ~Holds(c)

\* C18 witness: reads of a path with a wrong last segment and of a path
\* with an unknown backend have both ended in their error.
C18_Witness ==
  \E c, d \in Calls :
    /\ IsRead(calls[c]) /\ calls[c].req.uri.segs = <<"a", "t", "columns">>
    /\ calls[c].resp.content = << <<"invalid-uri", "must end with /schema">> >>
    /\ IsRead(calls[d]) /\ calls[d].req.uri.segs = <<"zz", "t", "schema">>
    /\ calls[d].resp.content = << <<"not-found", "zz">> >>

\* The label of the probe named what among the details of a call, as a set.
Labels(cr, what) ==
  {cr.details[i][2] : i \in {j \in DOMAIN cr.details : cr.details[j][1] = what}}

BufferChecks == {c \in Calls : calls[c].req.name = "buffer_health_check"}

\* The threshold a buffer_health_check has to classify against: the
\* caller's, 0.95 when the caller gave none (in thousandths).
EffectiveThreshold(r) == IF r.thresholdGiven THEN r.threshold ELSE 950

\* Good exactly when rate >= threshold, Poor otherwise, no label for a rate
\* that is undefined.
Classified(text, threshold) ==
  IF text = "null" THEN "no-data"
  ELSE IF parseFloat(text) >= threshold THEN "Good" ELSE "Poor"

\* C23: buffer_health_check labels each computed hit rate Good exactly when
\* rate >= threshold and Poor otherwise, with the caller's threshold (0
\* included) and 0.95 only when the caller gave none; an undefined rate is
\* reported as no data, with neither label.
C23_RateAgainstCallersThreshold ==
  \A c \in BufferChecks :
    LET cr == calls[c]
        threshold == EffectiveThreshold(cr.req)
    IN  /\ Labels(cr, "index-rate") \subseteq {Classified(stats.indexRate, threshold)}
        /\ Labels(cr, "table-rate") \subseteq {Classified(stats.tableRate, threshold)}
        /\ (cr.pc = "done" /\ cr.resp.how = "return") =>
              cr.resp.content =
                << <<"buffer-analysis">>,
                   <<"index-rate", Classified(stats.indexRate, threshold)>>,
                   <<"table-rate", Classified(stats.tableRate, threshold)>> >>

\* A rate of 0 is Good at the caller's threshold 0, and 0.99 is Poor at 0.999.
C23_Witness ==
  \E c \in BufferChecks :
    /\ calls[c].pc = "done" /\ calls[c].resp.how = "return"
    /\ calls[c].req.thresholdGiven
    /\ \/ calls[c].req.threshold = 0 /\ stats.indexRate = "0"
          /\ calls[c].resp.content[2] = <<"index-rate", "Good">>
       \/ calls[c].req.threshold = 999 /\ stats.tableRate = "0.99"
          /\ calls[c].resp.content[3] = <<"table-rate", "Poor">>

\* C24 (as the code has it): the vacuum probe reports critical when the
\* transaction-id age a > 1,500,000,000, warning when 1,000,000,000 < a <=
\* 1,500,000,000, healthy otherwise: a boundary value is in the lower tier.
C24_SeverityTiersExclusive ==
  \A c \in Calls :
    Labels(calls[c], "txid-age") \subseteq
      {IF stats.age > 1500000000 THEN "critical"
       ELSE IF stats.age > 1000000000 THEN "warning"
       ELSE "healthy"}

\* C24 as stated: critical when a >= 1,500,000,000, warning when
\* 1,000,000,000 <= a < 1,500,000,000, healthy otherwise.
C24_SeverityTiersInclusive ==
  \A c \in Calls :
    Labels(calls[c], "txid-age") \subseteq
      {IF stats.age >= 1500000000 THEN "critical"
       ELSE IF stats.age >= 1000000000 THEN "warning"
       ELSE "healthy"}

\* An age of exactly 1,500,000,000 has been reported as a warning.
C24_Witness ==
  \E c \in Calls :
    /\ stats.age = 1500000000
    /\ calls[c].pc = "done"
    /\ Labels(calls[c], "txid-age") = {"warning"}

\* The connections call c holds.
Held(c) == {bk \in (DOMAIN conns) \X Slots : conns[bk[1]][bk[2]] = c}

\* C25: a call holds at most one pooled connection at any moment, and asks
\* a pool for a connection only while it holds none: each probe of
\* database_health_check and buffer_health_check, and each iteration of the
\* resource listing, releases its connection before the next one acquires.
C25_NoHoldAndWait ==
  \A c \in Calls :
    /\ Cardinality(Held(c)) <= 1
    /\ calls[c].pc = "connect" => Held(c) = {}
    /\ calls[c].pc \in {"idle", "done"} \/ calls[c].client = 0 \/
          Held(c) = {<<calls[c].db, calls[c].client>>}

\* A handler is in a later segment, holding a connection, after it released
\* the one of an earlier segment.
C25_Witness ==
  \E c \in Calls :
    /\ calls[c].req.name \in {"database_health_check", "buffer_health_check", "resources/list"}
    /\ calls[c].pc = "query"
    /\ Cardinality(Held(c)) = 1
    /\ Releases(calls[c].log) >= 1
    /\ Connects(calls[c].log) = Releases(calls[c].log) + 1

\* The names a request asks sections for: the catalog if the list holds the
\* exact string "all", the list itself otherwise.
SectionNames(r) ==
  LET types == IF r.typesGiven THEN r.health_types ELSE <<"all">>
  IN  IF \E i \in 1..Len(types) : types[i] = "all" THEN Catalog ELSE types

\* C26: the sections of a report follow the request: the seven catalog
\* sections once each if health_types holds the exact string "all" anywhere,
\* otherwise one section per list element in list order (a repeated name
\* gives a repeated section, an empty list the header only), and a name
\* outside the catalog gives a section with the one line "Unknown health
\* check type" and no error.
C26_SectionsFollowTheRequest ==
  \A c \in Calls :
    ReportReturned(calls[c]) =>
      LET names == SectionNames(calls[c].req)
          chunks == SectionChunks(calls[c])
      IN  /\ calls[c].resp.how = "return"
          /\ Len(calls[c].allResults) >= 4
          /\ Len(chunks) = Len(names)
          /\ Headers(calls[c]) = [i \in 1..Len(names) |-> HeaderOf(names[i])]
          /\ \A i \in 1..Len(names) :
               /\ chunks[i][1] = HeaderOf(names[i])
               /\ ProbeOf(names[i]) \notin SeqToSet(Catalog) =>
                    chunks[i] = <<HeaderOf(names[i]), <<"unknown-type", names[i]>>, Blank>>

\* A report for ["index", "all"] has been returned, with seven sections.
C26_Witness ==
  \E c \in Calls :
    /\ ReportReturned(calls[c])
    /\ calls[c].req.health_types = <<"index", "all">>
    /\ Len(SectionChunks(calls[c])) = 7
    /\ Headers(calls[c]) = CatalogHeaders

\* The tools that take a database argument.
DatabaseTools == StatementTools \cup {"buffer_health_check", "database_health_check"}

\* C27: a tool call that names a backend id that is not registered fails
\* before any effect: it takes no connection, runs no statement, and
\* database_health_check returns no partial report; so does a call with an
\* unknown tool name.
C27_UnregisteredFailsBeforeAnyEffect ==
  \A c \in Calls :
    LET cr == calls[c]
    IN  (/\ started = "running"
         /\ cr.pc # "idle"
         /\ \/ cr.req.name \notin ToolNames \cup {"resources/list", "resources/read", "tools/list"}
            \/ /\ cr.req.name \in DatabaseTools
               /\ cr.req.database # Undefined
               /\ ~Registered(cr.req.database))
        => /\ cr.pc = "done"
           /\ cr.resp.how = "throw"
           /\ cr.log = <<>>
           /\ cr.client = 0

\* A call of DatabaseTools that is past the point where it resolved its
\* backend works on backend b and on no other.
Uses(cr, b) ==
  /\ cr.pc \in {"connect", "query"} => cr.db = b
  /\ cr.pc = "done" => cr.log # <<>>
  /\ \A i \in 1..Len(cr.log) : cr.log[i].db = b

\* C22: in single-database mode exactly one backend, with the id "default",
\* is registered and is the default, and every operation uses it, whatever
\* the call passes or omits as its database argument.
C22_SingleModeUsesTheOneBackend ==
  (started = "running" /\ configData.mode = "single") =>
    /\ databaseConfigs = <<"default">>
    /\ databasePools = <<"default">>
    /\ defaultDatabaseId = "default"
    /\ \A c \in Calls :
         (/\ calls[c].pc # "idle"
          /\ calls[c].req.name \in DatabaseTools
          /\ calls[c].req.name = "database_health_check" => calls[c].req.health_types # <<>>)
         => Uses(calls[c], "default")

\* One entry {id, name, description} per registered backend, in the order
\* of registration.
BackendEntries ==
  [i \in 1..Len(databaseConfigs) |->
     [id |-> databaseConfigs[i],
      name |-> DatabaseConfigOf(configData, databaseConfigs[i]).name,
      description |-> DatabaseConfigOf(configData, databaseConfigs[i]).description]]

\* A call of list_databases, or a read of the databases resource at the URI
\* under which the listing offers it.
AsksForBackends(cr) ==
  \/ cr.req.name = "list_databases"
  \/ IsRead(cr) /\ cr.req.uri = DatabasesUri

\* C21: list_databases and the databases resource return one entry {id,
\* name, description} per configured backend, each backend once, in the
\* order of registration, and the same on every call.
C21_BackendListInRegistrationOrder ==
  \A c \in Calls :
    (AsksForBackends(calls[c]) /\ calls[c].pc # "idle") =>
      /\ calls[c].pc = "done"
      /\ calls[c].resp.how = "return"
      /\ calls[c].resp.content = << <<"databases">> \o BackendEntries >>

\* The table resources of backend b as they are now.
TableResources(b) == IF data[b].exists THEN <<TableUri(b, TableName)>> ELSE <<>>

\* The step from cr to nx has logged a failure.
StepFailed(cr, nx) ==
  \E j \in (Len(cr.log) + 1)..Len(nx.log) : ~nx.log[j].ok

\* C29: the resource listing is best-effort per backend: when a connection
\* cannot be had or the listing of tables fails for one backend, the loop
\* goes on with the next backend and the resources gathered so far stay;
\* a backend that answers adds its table resources; the response starts
\* with the databases resource, every acquired connection is released, and
\* the listing never ends in an error.
C29_ListingIsBestEffort ==
  [][\A c \in Calls :
       LET cr == calls[c]
           nx == calls'[c]
       IN  (IsListing(nx) /\ nx # cr) =>
             /\ nx.allResults # <<>> /\ nx.allResults[1] = DatabasesUri
             /\ nx.pc = "done" =>
                  /\ nx.resp = [how |-> "return", isError |-> Undefined,
                                content |-> nx.allResults]
                  /\ Connects(nx.log) = Releases(nx.log)
                  /\ \A b \in DOMAIN conns' : \A k \in Slots : conns'[b][k] # c
             /\ IsListing(cr) =>
                  /\ cr.pc = "connect" =>
                       /\ nx.allResults = cr.allResults
                       /\ ~StepFailed(cr, nx) => nx.pc = "query" /\ nx.sec = cr.sec
                  /\ (cr.pc = "query" /\ ~StepFailed(cr, nx)) =>
                       nx.allResults = cr.allResults \o TableResources(databaseConfigs[cr.sec])
                  /\ StepFailed(cr, nx) => nx.allResults = cr.allResults
                  /\ cr.pc = "query" \/ StepFailed(cr, nx) =>
                       /\ nx.client = 0
                       /\ IF cr.sec < Len(databaseConfigs)
                          THEN nx.pc = "connect" /\ nx.sec = cr.sec + 1
                          ELSE nx.pc = "done"]_vars

\* A listing has returned the table of backend b after backend a failed.
C29_Witness ==
  \E c \in Calls :
    /\ IsListing(calls[c])
    /\ calls[c].pc = "done"
    /\ SectionFailed(calls[c], 1)
    /\ ~SectionFailed(calls[c], 2)
    /\ calls[c].resp.content = <<DatabasesUri, TableUri("b", TableName)>>

\* The configurations that differ from the one in use in the connection
\* strings only.
OtherCredentials ==
  {[configData EXCEPT !.credentials = p] : p \in Credentials \ {configData.credentials}}

\* C30: no response content reveals a connection string: what
\* list_databases, the databases resource, the tool list and a health report
\* return is what they return under a configuration that differs in the
\* backends' connection strings only.
C30_OutputsIndependentOfConnectionStrings ==
  \A c \in Calls :
    \A cfg \in OtherCredentials :
      LET cr == calls[c]
      IN  (cr.pc = "done" /\ cr.resp.how = "return") =>
            /\ (cr.req.name = "list_databases" \/ IsRead(cr)) =>
                 cr.resp.content = << <<"databases">> \o listDatabasesOf(cfg, databaseConfigs) >>
            /\ cr.req.name = "tools/list" =>
                 cr.resp.content = << <<"database-parameter", databaseConfigs, defaultDatabaseId>> >>
            /\ IsHealthCheck(cr) =>
                 /\ SubSeq(cr.resp.content, 1, 4) =
                      ReportHeadOf(cfg, OrElse(cr.req.database, defaultDatabaseId))
                 /\ \A i \in 5..Len(cr.resp.content) :
                      cr.resp.content[i][1] \in {"header", "finding", "check-error",
                                                 "error-running", "blank"}

\* list_databases has returned the entries of two backends.
C30_Witness ==
  \E c \in Calls :
    /\ calls[c].req.name = "list_databases"
    /\ calls[c].pc = "done"
    /\ Len(databaseConfigs) = 2
    /\ Len(calls[c].resp.content[1]) = 3
    /\ OtherCredentials # {}

\* The SSE connections opened for session id, in the order of opening.
OpenedFor(id) == {n \in 1..Len(sse) : sse[n].id = id}

\* The connection opened last for session id.
Latest(id) == CHOOSE n \in OpenedFor(id) : \A m \in OpenedFor(id) : m <= n

\* C28: for every session id s, while the SSE connection opened last for s
\* is open, a POST to /messages/s is handed to that connection's transport
\* and not answered 404, also when an earlier connection with the same id
\* closes after the later one was opened; a POST for an id with no open
\* connection is answered 404.
C28_PostReachesLatestOpenConnection ==
  [][\A id \in SessionIds :
       (Len(replies') = Len(replies) + 1 /\ replies'[Len(replies')].id = id) =>
         LET reply == replies'[Len(replies')]
         IN  /\ (OpenedFor(id) # {} /\ sse[Latest(id)].open) =>
                  reply.status = "handled" /\ reply.transport = Latest(id)
             /\ (\A n \in OpenedFor(id) : ~sse[n].open) => reply.status = "404"]_vars
====
